---- MODULE Spec2Model ----
(***************************************************************************)
(* Model of the GHAS audit engine of src/src/audit.js: repository          *)
(* selection, feature probing, the three paginated alert collectors,       *)
(* per-repository metrics, the fleet summary and the compliance scorer.    *)
(*                                                                         *)
(* JavaScript numbers are IEEE 754 doubles.  The counters of the summary   *)
(* are small integers and are modelled as integers; every value the        *)
(* scorer and the metrics calculator compute with fractions (0.33, the     *)
(* ratios, the averages) is modelled as a double: a mantissa of at most    *)
(* 53 bits (held as base-4096 digits, least significant first) and a       *)
(* binary exponent, with every operation rounded to nearest, ties to even. *)
(***************************************************************************)
EXTENDS Integers, Sequences, FiniteSets, TLC

VARIABLES
    pc,         \* position of run(): which step comes next
    options,    \* the parsed command line: repos (explicit list) and scope
    repos,      \* the list returned by getRepositories
    position,   \* number of repositories of `repos` already handed to auditRepository
    platform,   \* what the platform answered for each repository audited so far
    results,    \* this.results: summary, repositories, compliance
    warnings,   \* what console.warn has printed: a set of <<kind, repository>>
    failure,    \* the step whose error ended the run through run()'s catch
    shadow,     \* the same fleet audited in another order: the answers of the platform
                \* for each repository, the order, and the results of that second run
    listed      \* what listForOrg answered, all pages in order (fleet mode)

vars == <<pc, options, repos, position, platform, results, warnings, failure, shadow, listed>>

Undefined == "undefined"

(***************************************************************************)
(* IEEE 754 double arithmetic on non-negative values.                      *)
(***************************************************************************)
Limb(b, i) == IF i \in DOMAIN b THEN b[i] ELSE 0
Trim(b) ==
    IF \E i \in DOMAIN b : b[i] /= 0
    THEN SubSeq(b, 1, CHOOSE i \in DOMAIN b : b[i] /= 0 /\ \A j \in DOMAIN b : j > i => b[j] = 0)
    ELSE <<>>
RECURSIVE NatLimbs(_)
NatLimbs(n) == IF n = 0 THEN <<>> ELSE <<n % 4096>> \o NatLimbs(n \div 4096)
BitLength(b) ==
    IF b = <<>> THEN 0
    ELSE 12 * (Len(b) - 1) + CHOOSE k \in 1..12 : 2^k > b[Len(b)] /\ 2^(k - 1) <= b[Len(b)]
ShiftLeft(b, k) ==
    LET q == k \div 12
        r == k % 12
    IN Trim([i \in 1..(Len(b) + q + 1) |->
              IF i <= q THEN 0
              ELSE ((Limb(b, i - q) * 2^r) % 4096) + (Limb(b, i - q - 1) \div 2^(12 - r))])
ShiftRight(b, k) ==
    LET q == k \div 12
        r == k % 12
    IN IF Len(b) <= q THEN <<>>
       ELSE Trim([i \in 1..(Len(b) - q) |->
                   (b[i + q] \div 2^r) + ((Limb(b, i + q + 1) % 2^r) * 2^(12 - r))])
TestBit(b, k) == (Limb(b, ((k - 1) \div 12) + 1) \div 2^((k - 1) % 12)) % 2
LowBitsSet(b, k) ==
    \/ \E i \in 1..(k \div 12) : Limb(b, i) /= 0
    \/ Limb(b, (k \div 12) + 1) % 2^(k % 12) /= 0
TrailingZeros(b) ==
    LET j == CHOOSE i \in DOMAIN b : b[i] /= 0 /\ \A l \in DOMAIN b : l < i => b[l] = 0
    IN 12 * (j - 1) + CHOOSE t \in 0..11 : b[j] % 2^(t + 1) /= 0 /\ b[j] % 2^t = 0

RECURSIVE AddLimbsFrom(_, _, _, _, _)
AddLimbsFrom(a, b, i, c, acc) ==
    IF i > Len(a) /\ i > Len(b)
    THEN IF c = 1 THEN Append(acc, 1) ELSE acc
    ELSE LET s == Limb(a, i) + Limb(b, i) + c
         IN AddLimbsFrom(a, b, i + 1, s \div 4096, Append(acc, s % 4096))
AddLimbs(a, b) == AddLimbsFrom(a, b, 1, 0, <<>>)

RECURSIVE MulLimbsFrom(_, _, _, _, _)
MulLimbsFrom(a, k, i, c, acc) ==
    IF i > Len(a)
    THEN acc \o NatLimbs(c)
    ELSE LET t == a[i] * k + c
         IN MulLimbsFrom(a, k, i + 1, t \div 4096, Append(acc, t % 4096))
MulLimbs(a, k) == MulLimbsFrom(a, k, 1, 0, <<>>)

\* long division by d (d < 2^19): <<quotient, remainder>>
RECURSIVE DivLimbsFrom(_, _, _, _, _)
DivLimbsFrom(a, d, i, r, acc) ==
    IF i = 0
    THEN <<acc, r>>
    ELSE LET t == 4096 * r + a[i]
         IN DivLimbsFrom(a, d, i - 1, t % d, <<t \div d>> \o acc)
DivLimbs(a, d) == DivLimbsFrom(a, d, Len(a), 0, <<>>)

\* 1 when a > b, -1 when a < b, 0 when equal
CmpLimbs(a, b) ==
    IF Len(a) /= Len(b) THEN (IF Len(a) > Len(b) THEN 1 ELSE -1)
    ELSE IF a = b THEN 0
    ELSE LET i == CHOOSE i \in DOMAIN a : a[i] /= b[i] /\ \A j \in DOMAIN a : j > i => a[j] = b[j]
         IN IF a[i] > b[i] THEN 1 ELSE -1

MantissaBits == 53
FZero == [m |-> <<>>, e |-> 0]
\* F applied to the value of e, which is computed once
Let(e, F(_)) == CHOOSE r \in {F(x) : x \in {e}} : TRUE
\* the one representation of a value: an odd mantissa
Canon(b, e) ==
    Let(Trim(b), LAMBDA t :
        IF t = <<>> THEN FZero
        ELSE Let(TrailingZeros(t), LAMBDA z : [m |-> ShiftRight(t, z), e |-> e + z]))

\* b * 2^e (plus something below the last bit of b when sticky) rounded to 53 bits
RoundNearestEven(b, e, sticky) ==
    Let(Trim(b), LAMBDA t :
        Let(BitLength(t) - MantissaBits, LAMBDA drop :
            IF drop <= 0 THEN Canon(t, e)
            ELSE Let(ShiftRight(t, drop), LAMBDA kept :
                     IF TestBit(t, drop) = 1 /\ (sticky \/ LowBitsSet(t, drop - 1) \/ kept[1] % 2 = 1)
                     THEN Canon(AddLimbs(kept, <<1>>), e + drop)
                     ELSE Canon(kept, e + drop))))

Min(a, b) == IF a < b THEN a ELSE b
FromNat(n) == Canon(NatLimbs(n), 0)
FAddValues(x, y) ==
    IF x = FZero THEN y ELSE IF y = FZero THEN x
    ELSE Let(Min(x.e, y.e), LAMBDA e :
             RoundNearestEven(AddLimbs(ShiftLeft(x.m, x.e - e), ShiftLeft(y.m, y.e - e)), e, FALSE))
FAdd(a, b) == Let(a, LAMBDA x : Let(b, LAMBDA y : FAddValues(x, y)))
FMulNat(a, k) ==
    Let(a, LAMBDA x :
        IF x = FZero \/ k = 0 THEN FZero ELSE RoundNearestEven(MulLimbs(x.m, k), x.e, FALSE))
\* x / d for an integer d > 0; the powers of two of d only move the exponent
FDivNat(a, d) ==
    Let(a, LAMBDA x :
        IF x = FZero THEN FZero
        ELSE Let(TrailingZeros(NatLimbs(d)), LAMBDA z :
             Let(MantissaBits + 2 + BitLength(NatLimbs(d \div 2^z)), LAMBDA s :
             Let(DivLimbs(ShiftLeft(x.m, s), d \div 2^z), LAMBDA qr :
                 RoundNearestEven(qr[1], x.e - s - z, qr[2] /= 0)))))
FCmpValues(x, y) ==
    IF x = y THEN 0
    ELSE IF x = FZero THEN -1 ELSE IF y = FZero THEN 1
    ELSE Let(Min(x.e, y.e), LAMBDA e :
             CmpLimbs(ShiftLeft(x.m, x.e - e), ShiftLeft(y.m, y.e - e)))
FCmp(a, b) == Let(a, LAMBDA x : Let(b, LAMBDA y : FCmpValues(x, y)))
FLt(x, y) == FCmp(x, y) < 0
FLe(x, y) == FCmp(x, y) <= 0
\* the double nearest to a / b, as a literal such as 0.33 or a quotient of two integers
FRatio(a, b) == FDivNat(FromNat(a), b)
Double033 == FRatio(33, 100)
Double034 == FRatio(34, 100)
Double05 == FRatio(5, 10)
FMin(a, b) == Let(a, LAMBDA x : Let(b, LAMBDA y : IF FLt(y, x) THEN y ELSE x))

(***************************************************************************)
(* Values of the platform's API.  A timestamp is <<t>>, t in hours since   *)
(* the epoch (new Date gives 3600000 times as many milliseconds); a null   *)
(* or absent timestamp is <<>>.  A null or absent string is                *)
(* Undefined.  A rule id, which the scorer searches for keywords, is       *)
(* <<s>> with s the sequence of its characters, or <<>> when null.         *)
(***************************************************************************)
TruthyString(v) == v /= Undefined /\ v /= ""
TruthyTime(v) == v /= <<>>
Field(a, f) == IF f \in DOMAIN a THEN a[f] ELSE Undefined
TimeField(a, f) == IF f \in DOMAIN a THEN a[f] ELSE <<>>
PerPage == 100
MsPerDay == 1000 * 60 * 60 * 24

Map(f(_), s) == [i \in DOMAIN s |-> f(s[i])]
Count(P(_), s) == Cardinality({i \in DOMAIN s : P(s[i])})
RECURSIVE FilterRange(_, _, _, _)
FilterRange(P(_), s, lo, hi) ==
    IF lo > hi THEN <<>>
    ELSE IF lo = hi THEN (IF P(s[lo]) THEN <<s[lo]>> ELSE <<>>)
    ELSE FilterRange(P, s, lo, (lo + hi) \div 2) \o FilterRange(P, s, ((lo + hi) \div 2) + 1, hi)
Filter(P(_), s) == FilterRange(P, s, 1, Len(s))
\* String.prototype.includes on strings held as sequences of characters
Includes(s, w) == \E i \in 1..(Len(s) - Len(w) + 1) : SubSeq(s, i, i + Len(w) - 1) = w

(***************************************************************************)
(* getSecurityFeatures: the four probes of one repository.                 *)
(* probes.codeScanning    "analyses" | "empty" | "error"                   *)
(* probes.secretScanning  the status of the probe request: 200, or the     *)
(*                        status of the error (Undefined: an error that    *)
(*                        carries no status)                               *)
(* probes.repository      "alerts_enabled" | "alerts_disabled" | "error"   *)
(* probes.branchProtection "protected" | "error"                           *)
(***************************************************************************)
DefaultFeatures ==
    [codeScanning |-> [enabled |-> FALSE, error |-> Undefined],
     secretScanning |-> [enabled |-> FALSE, pushProtection |-> FALSE, error |-> Undefined],
     dependabot |-> [enabled |-> FALSE, error |-> Undefined],
     branchProtection |-> [enabled |-> FALSE]]

ProbeCodeScanning(features, probes) ==
    \* a failed request is turned into an empty list by .catch
    IF probes.codeScanning = "analyses"
    THEN [features EXCEPT !.codeScanning.enabled = TRUE]
    ELSE features

\* the probe that takes every failed request for a disabled feature
ProbeSecretScanningStrict(features, probes) ==
    IF probes.secretScanning = "200"
    THEN [features EXCEPT !.secretScanning.enabled = TRUE]
    ELSE features

\* "200" is any answered request: the response is not bound, so a list of alerts
\* and an empty list take the same path; Undefined is an error without a status
ProbeSecretScanning(features, probes) ==
    IF probes.secretScanning = "200"
    THEN [features EXCEPT !.secretScanning.enabled = TRUE]
    ELSE IF probes.secretScanning /= "404"
         THEN [features EXCEPT !.secretScanning.enabled = TRUE]
         ELSE features

ProbeBranchProtection(features, probes) ==
    IF probes.branchProtection = "protected"
    THEN [features EXCEPT !.branchProtection.enabled = TRUE]
    ELSE features

\* [features, warned]: warned when the outer catch printed its warning
getSecurityFeatures(probes) ==
    LET f2 == ProbeSecretScanning(ProbeCodeScanning(DefaultFeatures, probes), probes)
    IN IF probes.repository = "error"
       THEN [features |-> f2, warned |-> TRUE]
       ELSE LET f3 == [f2 EXCEPT !.dependabot.enabled = (probes.repository = "alerts_enabled")]
            IN [features |-> ProbeBranchProtection(f3, probes), warned |-> FALSE]

(***************************************************************************)
(* The alert collectors.  An offset-paginated source is                    *)
(*   [alerts: the records the platform holds, failPage: the page whose     *)
(*    request fails (0: none), failStatus: the status of that error].      *)
(***************************************************************************)
PageOf(src, page) ==
    SubSeq(src.alerts, (page - 1) * PerPage + 1, Min(page * PerPage, Len(src.alerts)))

CodeAlert(alert) ==
    [state |-> alert.state,
     severity |-> IF TruthyString(alert.security_severity_level)
                  THEN alert.security_severity_level ELSE "unknown",
     rule |-> alert.rule_id,
     createdAt |-> alert.created_at]

SecretAlert(alert) ==
    [state |-> alert.state,
     createdAt |-> alert.created_at,
     resolvedAt |-> alert.resolved_at]

DependabotAlert(alert) ==
    [createdAt |-> alert.createdAt,
     severity |-> alert.severity]

\* the loop that never asks for a second page
CodeScanningLoopOnePage(src, page, alerts, requests) ==
    IF src.failPage = page
    THEN IF src.failStatus /= "404"
         THEN [alerts |-> <<>>, threw |-> TRUE, requests |-> Append(requests, page)]
         ELSE [alerts |-> alerts, threw |-> FALSE, requests |-> Append(requests, page)]
    ELSE [alerts |-> alerts \o Map(CodeAlert, PageOf(src, page)), threw |-> FALSE,
          requests |-> Append(requests, page)]

\* [alerts, threw, requests]: requests lists the page numbers asked for
RECURSIVE CodeScanningLoop(_, _, _, _)
CodeScanningLoop(src, page, alerts, requests) ==
    IF src.failPage = page
    THEN IF src.failStatus /= "404"
         THEN [alerts |-> <<>>, threw |-> TRUE, requests |-> Append(requests, page)]
         ELSE [alerts |-> alerts, threw |-> FALSE, requests |-> Append(requests, page)]
    ELSE LET data == PageOf(src, page)
             all == alerts \o Map(CodeAlert, data)
         IN IF Len(data) = PerPage
            THEN CodeScanningLoop(src, page + 1, all, Append(requests, page))
            ELSE [alerts |-> all, threw |-> FALSE, requests |-> Append(requests, page)]
\* the collector that throws on every failed request, a 404 included
getCodeScanningAlertsStrict(src) ==
    LET out == CodeScanningLoop(src, 1, <<>>, <<>>)
    IN IF src.failPage = Len(out.requests)
       THEN [alerts |-> <<>>, threw |-> TRUE, requests |-> out.requests]
       ELSE out
getCodeScanningAlerts(src) == CodeScanningLoop(src, 1, <<>>, <<>>)

RECURSIVE SecretScanningLoop(_, _, _, _)
SecretScanningLoop(src, page, alerts, requests) ==
    IF src.failPage = page
    THEN IF src.failStatus /= "404" /\ src.failStatus /= "403"
         THEN [alerts |-> <<>>, threw |-> TRUE, requests |-> Append(requests, page)]
         ELSE [alerts |-> alerts, threw |-> FALSE, requests |-> Append(requests, page)]
    ELSE LET data == PageOf(src, page)
             all == alerts \o Map(SecretAlert, data)
         IN IF Len(data) = PerPage
            THEN SecretScanningLoop(src, page + 1, all, Append(requests, page))
            ELSE [alerts |-> all, threw |-> FALSE, requests |-> Append(requests, page)]
getSecretScanningAlerts(src) == SecretScanningLoop(src, 1, <<>>, <<>>)

(***************************************************************************)
(* The dependency source answers a GraphQL query per page:                 *)
(*   [pages: the node lists, one per page, missing: the repository field   *)
(*    of the answer is null, failRequest: the request that throws (0:      *)
(*    none)].  The cursor that follows page k is k; the null cursor is 0.  *)
(***************************************************************************)
GraphqlAnswer(src, cursor) ==
    IF src.missing
    THEN [hasNodes |-> FALSE, nodes |-> <<>>, hasNextPage |-> FALSE, endCursor |-> 0]
    ELSE IF cursor + 1 > Len(src.pages)
         THEN [hasNodes |-> TRUE, nodes |-> <<>>, hasNextPage |-> FALSE, endCursor |-> 0]
         ELSE [hasNodes |-> TRUE, nodes |-> src.pages[cursor + 1],
               hasNextPage |-> cursor + 1 < Len(src.pages),
               endCursor |-> cursor + 1]

\* the loop that sends one query and does not look at hasNextPage
DependabotLoopOneQuery(src, cursor, alerts, cursors) ==
    IF src.failRequest = Len(cursors) + 1
    THEN [alerts |-> alerts, warned |-> TRUE, cursors |-> Append(cursors, cursor)]
    ELSE [alerts |-> alerts \o Map(DependabotAlert, GraphqlAnswer(src, cursor).nodes),
          warned |-> FALSE, cursors |-> Append(cursors, cursor)]

\* [alerts, warned, cursors]: cursors lists the cursor of every query sent
RECURSIVE DependabotLoop(_, _, _, _)
DependabotLoop(src, cursor, alerts, cursors) ==
    IF src.failRequest = Len(cursors) + 1
    THEN \* the catch inside getDependabotAlerts: warn, return what was pushed so far
         [alerts |-> alerts, warned |-> TRUE, cursors |-> Append(cursors, cursor)]
    ELSE LET answer == GraphqlAnswer(src, cursor)
         IN IF answer.hasNodes
            THEN LET all == alerts \o Map(DependabotAlert, answer.nodes)
                 IN IF answer.hasNextPage
                    THEN DependabotLoop(src, answer.endCursor, all, Append(cursors, cursor))
                    ELSE [alerts |-> all, warned |-> FALSE, cursors |-> Append(cursors, cursor)]
            ELSE [alerts |-> alerts, warned |-> FALSE, cursors |-> Append(cursors, cursor)]
getDependabotAlerts(src) == DependabotLoop(src, 0, <<>>, <<>>)

(***************************************************************************)
(* calculateRepoMetrics and updateSummary.                                 *)
(***************************************************************************)
AllAlerts(repoAudit) ==
    repoAudit.alerts.code \o repoAudit.alerts.secret \o repoAudit.alerts.dependency

\* the filter that looks at the state only
IsOpenByState(a) == Field(a, "state") = "open"
IsOpen(a) == Field(a, "state") = "open" \/ ~TruthyTime(TimeField(a, "dismissedAt"))
IsResolved(a) == TruthyTime(TimeField(a, "resolvedAt")) \/ TruthyTime(TimeField(a, "dismissedAt"))

\* the difference of two Dates, in milliseconds, from the difference in hours
Milliseconds(hours) == FMulNat(FMulNat(FromNat(hours), 3600), 1000)

\* (resolved - created) / (1000 * 60 * 60 * 24)
ResolutionTime(a) ==
    LET created == a.createdAt[1]
        resolved == IF TruthyTime(TimeField(a, "resolvedAt"))
                    THEN a.resolvedAt[1] ELSE a.dismissedAt[1]
    IN FDivNat(Milliseconds(resolved - created), MsPerDay)

\* the left fold over s[lo..hi] from acc, split in halves to keep the evaluation shallow
RECURSIVE SumRange(_, _, _, _)
SumRange(s, lo, hi, acc) ==
    IF lo > hi THEN acc
    ELSE IF lo = hi THEN FAdd(acc, s[lo])
    ELSE Let(SumRange(s, lo, (lo + hi) \div 2, acc),
             LAMBDA left : SumRange(s, ((lo + hi) \div 2) + 1, hi, left))
\* reduce((a, b) => a + b, 0)
Sum(s) == SumRange(s, 1, Len(s), FZero)

MeanTimeToResolve(allAlerts) ==
    Let(Filter(IsResolved, allAlerts), LAMBDA resolvedAlerts :
        IF Len(resolvedAlerts) > 0
        THEN FDivNat(Sum(Map(ResolutionTime, resolvedAlerts)), Len(resolvedAlerts))
        ELSE FZero)

\* the metrics with the dependency collection left out of the total
calculateRepoMetricsWithoutDependency(repoAudit) ==
    Let(AllAlerts(repoAudit), LAMBDA allAlerts :
    Let(Count(IsOpen, allAlerts), LAMBDA open :
        [repoAudit EXCEPT !.metrics =
           [totalAlerts |-> Len(repoAudit.alerts.code) + Len(repoAudit.alerts.secret),
            openAlerts |-> open,
            closedAlerts |-> Len(allAlerts) - open,
            meanTimeToResolve |-> MeanTimeToResolve(allAlerts)]]))

calculateRepoMetrics(repoAudit) ==
    Let(AllAlerts(repoAudit), LAMBDA allAlerts :
    Let(Count(IsOpen, allAlerts), LAMBDA open :
        [repoAudit EXCEPT !.metrics =
           [totalAlerts |-> Len(allAlerts),
            openAlerts |-> open,
            closedAlerts |-> Len(allAlerts) - open,
            meanTimeToResolve |-> MeanTimeToResolve(allAlerts)]]))

CountSeverity(alerts, word) == Cardinality({i \in DOMAIN alerts : alerts[i].severity = word})

\* the summary in which every secret alert is also counted as critical
updateSummaryCountingSecrets(summary, repoAudit) ==
    LET code == repoAudit.alerts.code
        dependency == repoAudit.alerts.dependency
    IN [summary EXCEPT
          !.totalAlerts = @ + repoAudit.metrics.totalAlerts,
          !.criticalAlerts = @ + CountSeverity(code, "critical") + CountSeverity(dependency, "CRITICAL")
                               + Len(repoAudit.alerts.secret),
          !.highAlerts = @ + CountSeverity(code, "high") + CountSeverity(dependency, "HIGH"),
          !.mediumAlerts = @ + CountSeverity(code, "medium") + CountSeverity(dependency, "MODERATE"),
          !.lowAlerts = @ + CountSeverity(code, "low") + CountSeverity(dependency, "LOW"),
          !.codeAlerts = @ + Len(code),
          !.secretAlerts = @ + Len(repoAudit.alerts.secret),
          !.dependencyAlerts = @ + Len(dependency)]

updateSummary(summary, repoAudit) ==
    LET code == repoAudit.alerts.code
        dependency == repoAudit.alerts.dependency
    IN [summary EXCEPT
          !.totalAlerts = @ + repoAudit.metrics.totalAlerts,
          !.criticalAlerts = @ + CountSeverity(code, "critical") + CountSeverity(dependency, "CRITICAL"),
          !.highAlerts = @ + CountSeverity(code, "high") + CountSeverity(dependency, "HIGH"),
          !.mediumAlerts = @ + CountSeverity(code, "medium") + CountSeverity(dependency, "MODERATE"),
          !.lowAlerts = @ + CountSeverity(code, "low") + CountSeverity(dependency, "LOW"),
          !.codeAlerts = @ + Len(code),
          !.secretAlerts = @ + Len(repoAudit.alerts.secret),
          !.dependencyAlerts = @ + Len(dependency)]

(***************************************************************************)
(* auditRepository: probes, the three collectors, metrics, summary, push.  *)
(* env is what the platform answers for this repository:                   *)
(*   [probes, code, secret, dependency].                                   *)
(* The result is [results, warnings]: the new this.results and the         *)
(* warnings printed.                                                       *)
(***************************************************************************)
ErrorMessage(status) == "request failed: " \o status

\* the record auditRepository builds before the metrics are calculated
Collected(repo, env, probed, code, secret, dependency) ==
    [name |-> repo.name,
     securityFeatures |->
        [probed.features EXCEPT
           !.codeScanning.error = IF code.threw THEN ErrorMessage(env.code.failStatus) ELSE @,
           !.secretScanning.error = IF secret.threw THEN ErrorMessage(env.secret.failStatus) ELSE @],
     alerts |-> [code |-> IF code.threw THEN <<>> ELSE code.alerts,
                 secret |-> IF secret.threw THEN <<>> ELSE secret.alerts,
                 dependency |-> dependency.alerts],
     metrics |-> [totalAlerts |-> 0, openAlerts |-> 0, closedAlerts |-> 0,
                  meanTimeToResolve |-> FZero]]

auditRepository(res, repo, env) ==
    Let(getSecurityFeatures(env.probes), LAMBDA probed :
    Let(getCodeScanningAlerts(env.code), LAMBDA code :
    Let(getSecretScanningAlerts(env.secret), LAMBDA secret :
    Let(getDependabotAlerts(env.dependency), LAMBDA dependency :
    Let(calculateRepoMetrics(Collected(repo, env, probed, code, secret, dependency)),
        LAMBDA repoAudit :
            [results |->
               [res EXCEPT
                  !.summary = [updateSummary(@, repoAudit) EXCEPT !.scannedRepositories = @ + 1],
                  !.repositories = Append(@, repoAudit)],
             warnings |->
               (IF probed.warned THEN {<<"features", repo.name>>} ELSE {})
               \cup (IF dependency.warned THEN {<<"dependabot", repo.name>>} ELSE {})])))))

(***************************************************************************)
(* calculateCompliance and the three framework scores.                     *)
(***************************************************************************)
RECURSIVE ScanningFrom(_, _, _)
ScanningFrom(list, i, acc) ==
    IF i > Len(list) THEN acc
    ELSE LET f == list[i].securityFeatures
             a == IF f.codeScanning.enabled THEN FAdd(acc, Double033) ELSE acc
             b == IF f.secretScanning.enabled THEN FAdd(a, Double033) ELSE a
             c == IF f.dependabot.enabled THEN FAdd(b, Double034) ELSE b
         IN ScanningFrom(list, i + 1, c)

RECURSIVE ProtectionFrom(_, _, _)
ProtectionFrom(list, i, acc) ==
    IF i > Len(list) THEN acc
    ELSE LET f == list[i].securityFeatures
             a == IF f.branchProtection.enabled THEN FAdd(acc, Double05) ELSE acc
             b == IF f.secretScanning.pushProtection THEN FAdd(a, Double05) ELSE a
         IN ProtectionFrom(list, i + 1, b)

\* the resolution sum in which a repository without alerts contributes nothing
RECURSIVE ResolutionFromWithoutClean(_, _, _)
ResolutionFromWithoutClean(list, i, acc) ==
    IF i > Len(list) THEN acc
    ELSE LET m == list[i].metrics
         IN ResolutionFromWithoutClean(list, i + 1,
                IF m.totalAlerts > 0
                THEN FAdd(acc, FRatio(m.closedAlerts, m.totalAlerts))
                ELSE acc)

RECURSIVE ResolutionFrom(_, _, _)
ResolutionFrom(list, i, acc) ==
    IF i > Len(list) THEN acc
    ELSE LET m == list[i].metrics
         IN ResolutionFrom(list, i + 1,
                IF m.totalAlerts > 0
                THEN FAdd(acc, FRatio(m.closedAlerts, m.totalAlerts))
                ELSE FAdd(acc, FromNat(1)))

\* the percentage taken of the sum, not of the average over the repositories
PercentOfSum(score, totalRepos) == FMulNat(score, 100)

\* (scores[key] / totalRepos) * 100
Percent(score, totalRepos) == FMulNat(FDivNat(score, totalRepos), 100)

OverallScore(list) ==
    LET totalRepos == Len(list)
        scanning == Percent(ScanningFrom(list, 1, FZero), totalRepos)
        protection == Percent(ProtectionFrom(list, 1, FZero), totalRepos)
        resolution == Percent(ResolutionFrom(list, 1, FZero), totalRepos)
    IN FDivNat(FAdd(FAdd(scanning, protection), resolution), 3)

\* repos.reduce((count, repo) => count + repo.alerts.code.filter(a => a.rule.includes(word)).length, 0)
KeywordAlerts(list, word) ==
    Cardinality(UNION {{<<i, j>> : j \in {k \in DOMAIN list[i].alerts.code :
                                               Includes(list[i].alerts.code[k].rule[1], word)}} :
                       i \in DOMAIN list})

CountEnabled(list, Enabled(_)) == Cardinality({i \in DOMAIN list : Enabled(list[i].securityFeatures)})
CodeScanningEnabled(f) == f.codeScanning.enabled
SecretScanningEnabled(f) == f.secretScanning.enabled
DependabotEnabled(f) == f.dependabot.enabled
BranchProtectionEnabled(f) == f.branchProtection.enabled
Monitored(f) == f.codeScanning.enabled \/ f.secretScanning.enabled \/ f.dependabot.enabled

\* a.rule.includes(...) throws a TypeError on a rule id that is null
OWASPThrows(res) ==
    \E i \in DOMAIN res.repositories :
        \E j \in DOMAIN res.repositories[i].alerts.code :
            res.repositories[i].alerts.code[j].rule = <<>>

\* the OWASP score with the dependency thresholds taken inclusively
calculateOWASPComplianceInclusive(res) ==
    LET list == res.repositories
        s1 == IF KeywordAlerts(list, <<"i", "n", "j", "e", "c", "t", "i", "o", "n">>) = 0 THEN 10 ELSE 0
        s2 == s1 + IF KeywordAlerts(list, <<"a", "u", "t", "h">>) = 0 THEN 10 ELSE 0
        s3 == s2 + IF res.summary.secretAlerts = 0 THEN 20 ELSE 0
        s4 == s3 + IF KeywordAlerts(list, <<"c", "o", "n", "f", "i", "g">>) = 0 THEN 10 ELSE 0
        s5 == s4 + IF res.summary.dependencyAlerts <= 5 THEN 20
                   ELSE IF res.summary.dependencyAlerts <= 20 THEN 10 ELSE 0
        score == FAdd(FromNat(s5),
                      FMulNat(FRatio(CountEnabled(list, CodeScanningEnabled), Len(list)), 30))
    IN FMin(score, FromNat(100))

calculateOWASPCompliance(res) ==
    LET list == res.repositories
        s1 == IF KeywordAlerts(list, <<"i", "n", "j", "e", "c", "t", "i", "o", "n">>) = 0 THEN 10 ELSE 0
        s2 == s1 + IF KeywordAlerts(list, <<"a", "u", "t", "h">>) = 0 THEN 10 ELSE 0
        s3 == s2 + IF res.summary.secretAlerts = 0 THEN 20 ELSE 0
        s4 == s3 + IF KeywordAlerts(list, <<"c", "o", "n", "f", "i", "g">>) = 0 THEN 10 ELSE 0
        s5 == s4 + IF res.summary.dependencyAlerts < 5 THEN 20
                   ELSE IF res.summary.dependencyAlerts < 20 THEN 10 ELSE 0
        score == FAdd(FromNat(s5),
                      FMulNat(FRatio(CountEnabled(list, CodeScanningEnabled), Len(list)), 30))
    IN FMin(score, FromNat(100))

\* the NIST score that takes a repository as monitored only with all three scanners
MonitoredByAll(f) == f.codeScanning.enabled /\ f.secretScanning.enabled /\ f.dependabot.enabled
calculateNISTComplianceAllScanners(res) ==
    LET list == res.repositories
        s1 == FromNat(20)
        s2 == FAdd(s1, FMulNat(FRatio(CountEnabled(list, BranchProtectionEnabled), Len(list)), 20))
        s3 == FAdd(s2, FMulNat(FRatio(CountEnabled(list, MonitoredByAll), Len(list)), 20))
        avgResponseTime ==
            FDivNat(Sum([i \in DOMAIN list |-> list[i].metrics.meanTimeToResolve]), Len(list))
        s4 == IF FLt(avgResponseTime, FromNat(7)) THEN FAdd(s3, FromNat(20))
              ELSE IF FLt(avgResponseTime, FromNat(30)) THEN FAdd(s3, FromNat(10)) ELSE s3
        s5 == FAdd(s4, FromNat(20))
    IN FMin(s5, FromNat(100))

calculateNISTCompliance(res) ==
    LET list == res.repositories
        s1 == FromNat(20)
        s2 == FAdd(s1, FMulNat(FRatio(CountEnabled(list, BranchProtectionEnabled), Len(list)), 20))
        s3 == FAdd(s2, FMulNat(FRatio(CountEnabled(list, Monitored), Len(list)), 20))
        avgResponseTime ==
            FDivNat(Sum([i \in DOMAIN list |-> list[i].metrics.meanTimeToResolve]), Len(list))
        s4 == IF FLt(avgResponseTime, FromNat(7)) THEN FAdd(s3, FromNat(20))
              ELSE IF FLt(avgResponseTime, FromNat(30)) THEN FAdd(s3, FromNat(10)) ELSE s3
        s5 == FAdd(s4, FromNat(20))
    IN FMin(s5, FromNat(100))

\* the ISO score that counts code scanning in place of secret scanning
calculateISOComplianceCodeTwice(res) ==
    LET list == res.repositories
        s1 == FMulNat(FRatio(CountEnabled(list, DependabotEnabled), Len(list)), 25)
        s2 == FAdd(s1, FMulNat(FRatio(CountEnabled(list, CodeScanningEnabled), Len(list)), 25))
        s3 == FAdd(s2, FMulNat(FRatio(CountEnabled(list, CodeScanningEnabled), Len(list)), 25))
        s4 == FAdd(s3, FromNat(25))
    IN FMin(s4, FromNat(100))

calculateISOCompliance(res) ==
    LET list == res.repositories
        s1 == FMulNat(FRatio(CountEnabled(list, DependabotEnabled), Len(list)), 25)
        s2 == FAdd(s1, FMulNat(FRatio(CountEnabled(list, CodeScanningEnabled), Len(list)), 25))
        s3 == FAdd(s2, FMulNat(FRatio(CountEnabled(list, SecretScanningEnabled), Len(list)), 25))
        s4 == FAdd(s3, FromNat(25))
    IN FMin(s4, FromNat(100))

NoFrameworks == [name \in {} |-> [score |-> FZero]]

\* [results, threw]: threw when calculateOWASPCompliance raised its TypeError, after
\* overallScore was assigned and before frameworks was
ScoreFleet(res) ==
    Let([res EXCEPT !.compliance.overallScore = OverallScore(res.repositories)],
        LAMBDA scored :
            IF OWASPThrows(scored)
            THEN [results |-> scored, threw |-> TRUE]
            ELSE [results |->
                    [scored EXCEPT !.compliance.frameworks =
                       [OWASP |-> [score |-> calculateOWASPCompliance(scored)],
                        NIST |-> [score |-> calculateNISTCompliance(scored)],
                        ISO27001 |-> [score |-> calculateISOCompliance(scored)]]],
                  threw |-> FALSE])

\* 0 / 0
NotANumber == [m |-> <<>>, e |-> 0, nan |-> TRUE]

\* the scorer without its early return: the averages of an empty fleet are 0 / 0
calculateComplianceUnguarded(res) ==
    IF Len(res.repositories) = 0
    THEN [results |-> [res EXCEPT !.compliance.overallScore = NotANumber], threw |-> FALSE]
    ELSE ScoreFleet(res)

calculateCompliance(res) ==
    IF Len(res.repositories) = 0
    THEN [results |-> res, threw |-> FALSE]
    ELSE ScoreFleet(res)

InitialResults ==
    [summary |-> [totalRepositories |-> 0, scannedRepositories |-> 0, totalAlerts |-> 0,
                  criticalAlerts |-> 0, highAlerts |-> 0, mediumAlerts |-> 0, lowAlerts |-> 0,
                  secretAlerts |-> 0, dependencyAlerts |-> 0, codeAlerts |-> 0],
     repositories |-> <<>>,
     compliance |-> [overallScore |-> FZero, frameworks |-> NoFrameworks]]

(***************************************************************************)
(* getRepositories.  A repository of the platform is [name, topics]: the   *)
(* name a sequence of characters (the scope filter searches it), topics    *)
(* <<list>> or <<>> when the record has no topics field.                   *)
(***************************************************************************)
HasTopic(repo, topic) ==
    repo.topics /= <<>> /\ \E i \in DOMAIN repo.topics[1] : repo.topics[1][i] = topic

\* the filter that looks at the topics only
IsCriticalByTopic(repo) ==
    \/ HasTopic(repo, "critical")
    \/ HasTopic(repo, "production")

IsCritical(repo) ==
    \/ HasTopic(repo, "critical")
    \/ HasTopic(repo, "production")
    \/ Includes(repo.name, <<"a", "p", "i">>)
    \/ Includes(repo.name, <<"a", "u", "t", "h">>)

\* the loop that gives up at the first name it cannot resolve
ExplicitRepositoriesUntilFailure(names, catalog, resolved) ==
    LET failed == {i \in DOMAIN names : ~(resolved[i] /\ \E r \in catalog : r.name = names[i])}
        last == IF failed = {} THEN Len(names)
                ELSE (CHOOSE i \in failed : \A j \in failed : i <= j) - 1
    IN [k \in 1..last |-> CHOOSE r \in catalog : r.name = names[k]]

\* explicit mode: resolved[i] tells whether octokit.repos.get succeeded for names[i]
ExplicitRepositories(names, catalog, resolved) ==
    LET found == {i \in DOMAIN names : resolved[i] /\ \E r \in catalog : r.name = names[i]}
        Nth(k) == CHOOSE i \in found : Cardinality({j \in found : j <= i}) = k
    IN [k \in 1..Cardinality(found) |->
          CHOOSE r \in catalog : r.name = names[Nth(k)]]

\* fleet mode: the pages of listForOrg, then the scope filter
RECURSIVE ListLoop(_, _, _)
ListLoop(listing, page, acc) ==
    LET data == SubSeq(listing, (page - 1) * PerPage + 1, Min(page * PerPage, Len(listing)))
    IN IF Len(data) = PerPage
       THEN ListLoop(listing, page + 1, acc \o data)
       ELSE acc \o data

FleetRepositories(listing, scope) ==
    LET all == ListLoop(listing, 1, <<>>)
    IN IF scope = "critical" THEN Filter(IsCritical, all) ELSE all

(***************************************************************************)
(* What the platform can answer: the bounded sets the runs draw from.      *)
(***************************************************************************)
MaxAlerts == 2      \* longest list of hand-picked records in one source
MaxRepos == 2       \* longest list of repositories of a full run
MaxFleet == 2       \* longest fleet handed to the scorer
MaxOrder == 4       \* size of the fleet audited in two orders

SeqsUpTo(S, n) == UNION {[1..k -> S] : k \in 0..n}
Bulk(a, n) == [i \in 1..n |-> a]

Day(n) == <<n * 24>>
CodeRecord(sev, rule) ==
    [state |-> "open", security_severity_level |-> sev, rule_id |-> rule, created_at |-> Day(1)]
SecretRecord(state, resolved) ==
    [state |-> state, created_at |-> Day(1), resolved_at |-> resolved]
DependabotNode(sev, dismissed) ==
    [createdAt |-> Day(1), dismissedAt |-> dismissed, severity |-> sev]

RuleInjection == <<<<"j", "s", "/", "s", "q", "l", "-", "i", "n", "j", "e", "c", "t", "i", "o", "n">>>>
RuleAuth == <<<<"p", "y", "/", "w", "e", "a", "k", "-", "a", "u", "t", "h">>>>
RuleConfig == <<<<"m", "i", "s", "c", "o", "n", "f", "i", "g">>>>
RuleOther == <<<<"j", "s", "/", "x", "s", "s">>>>

CodeRecords ==
    {CodeRecord("critical", RuleInjection), CodeRecord("HIGH", RuleAuth),
     CodeRecord("Medium", RuleConfig), CodeRecord(Undefined, RuleOther),
     CodeRecord("low", <<>>)}
SecretRecords ==
    {SecretRecord("open", <<>>), SecretRecord("resolved", Day(6)), SecretRecord("resolved", Day(3))}
DependabotNodes ==
    {DependabotNode("CRITICAL", <<>>), DependabotNode("HIGH", <<>>),
     DependabotNode("MODERATE", Day(6)), DependabotNode("low", <<>>)}

Offset(alerts, failPage, failStatus) ==
    [alerts |-> alerts, failPage |-> failPage, failStatus |-> failStatus]
\* every list, alone or after one full page, answered in full or failing on a page
\* that is asked for
OffsetSources(lists, filler, statuses) ==
    LET all == lists \cup {Bulk(filler, PerPage) \o l : l \in lists}
    IN {Offset(l, 0, "200") : l \in all}
       \cup UNION {{Offset(l, page, st) : page \in 1..((Len(l) \div PerPage) + 1), st \in statuses} :
                   l \in all}
NoOffsetAlerts == Offset(<<>>, 0, "200")

Graphql(pages, missing, failRequest) ==
    [pages |-> pages, missing |-> missing, failRequest |-> failRequest]
GraphqlSources(lists, filler) ==
    LET paged == {<<l>> : l \in lists \ {<<>>}}
                 \cup {<<Bulk(filler, PerPage), l>> : l \in lists \ {<<>>}}
                 \cup {<<>>}
    IN UNION {{Graphql(pg, FALSE, f) : f \in 0..(IF pg = <<>> THEN 1 ELSE Len(pg))} : pg \in paged}
       \cup {Graphql(<<>>, TRUE, 0)}
NoGraphqlAlerts == Graphql(<<>>, FALSE, 0)

Probes(cs, ss, repo, bp) ==
    [codeScanning |-> cs, secretScanning |-> ss, repository |-> repo, branchProtection |-> bp]
AllProbes ==
    {Probes(cs, ss, repo, bp) :
        cs \in {"analyses", "empty", "error"},
        ss \in {"200", "404", "403", "500", Undefined},
        repo \in {"alerts_enabled", "alerts_disabled", "error"},
        bp \in {"protected", "error"}}
EnabledProbes == Probes("analyses", "200", "alerts_enabled", "protected")
OutageProbes == Probes("error", Undefined, "error", "error")
DisabledProbes == Probes("empty", "404", "alerts_disabled", "error")

Envs(P, C, S, D) ==
    {[probes |-> p, code |-> c, secret |-> s, dependency |-> d] :
        p \in P, c \in C, s \in S, d \in D}

BasicProbes == {EnabledProbes, OutageProbes}
BasicCode == {NoOffsetAlerts, Offset(<<CodeRecord("critical", RuleInjection)>>, 0, "200")}
BasicSecret == {NoOffsetAlerts, Offset(<<SecretRecord("open", <<>>)>>, 0, "200")}
BasicDependency == {NoGraphqlAlerts, Graphql(<<<<DependabotNode("HIGH", <<>>)>>>>, FALSE, 0)}

\* the five alerts of the mixed-severity scenario, each reported by the code-scanning
\* source (the positions in fromCode) or by the dependency source (the others)
MixedSeverities == <<"critical", "HIGH", "Medium", "low", "bogus">>
MixedCode(sev) == CodeRecord(sev, RuleOther)
MixedNode(sev) == DependabotNode(sev, <<>>)
MixedPart(fromCode, inCode) ==
    Map(LAMBDA i : MixedSeverities[i],
        Filter(LAMBDA i : (i \in fromCode) = inCode, <<1, 2, 3, 4, 5>>))
MixedSeverityEnv(fromCode) ==
    [probes |-> EnabledProbes,
     code |-> Offset(Map(MixedCode, MixedPart(fromCode, TRUE)), 0, "200"),
     secret |-> NoOffsetAlerts,
     dependency |-> Graphql(IF MixedPart(fromCode, FALSE) = <<>> THEN <<>>
                            ELSE <<Map(MixedNode, MixedPart(fromCode, FALSE))>>, FALSE, 0)]
MixedSeverityEnvs == {MixedSeverityEnv(fromCode) : fromCode \in SUBSET (1..5)}

\* one repository: each part of the answer in turn ranges over all its cases while the
\* other parts range over their basic cases
RepoEnvs ==
    Envs(AllProbes, BasicCode, BasicSecret, BasicDependency)
    \cup Envs(BasicProbes,
              OffsetSources(SeqsUpTo(CodeRecords, MaxAlerts), CodeRecord("high", RuleOther),
                            {"404", "500"}),
              BasicSecret, BasicDependency)
    \cup Envs(BasicProbes, BasicCode,
              OffsetSources(SeqsUpTo(SecretRecords, MaxAlerts), SecretRecord("open", <<>>),
                            {"403", "404", "500"}),
              BasicDependency)
    \cup Envs(BasicProbes, BasicCode, BasicSecret,
              GraphqlSources(SeqsUpTo(DependabotNodes, MaxAlerts), DependabotNode("LOW", <<>>)))
    \cup MixedSeverityEnvs

(***************************************************************************)
(* run(): the steps of one audit.                                          *)
(***************************************************************************)
Repository(name, topics) == [name |-> name, topics |-> topics]
Catalog ==
    {Repository(<<"p", "a", "y", "-", "a", "p", "i">>, <<>>),
     Repository(<<"w", "e", "b">>, <<<<"production">>>>),
     Repository(<<"d", "o", "c", "s">>, <<<<>>>>)}
CatalogNames == {r.name : r \in Catalog} \cup {<<"g", "o", "n", "e">>}

\* the distinct-element sequences over S of length at most n
RECURSIVE Listings(_, _)
Listings(S, n) ==
    IF n = 0 THEN {<<>>}
    ELSE {<<>>} \cup UNION {{<<r>> \o l : l \in Listings(S \ {r}, n - 1)} : r \in S}

RunOptions ==
    {[repos |-> <<names>>, scope |-> "custom"] : names \in SeqsUpTo(CatalogNames, MaxRepos) \ {<<>>}}
    \cup {[repos |-> <<>>, scope |-> sc] : sc \in {"all", "critical"}}

\* the answers a full run draws from
RunEnvs ==
    {[probes |-> EnabledProbes, code |-> NoOffsetAlerts, secret |-> NoOffsetAlerts,
      dependency |-> NoGraphqlAlerts],
     [probes |-> OutageProbes, code |-> Offset(<<>>, 1, "500"), secret |-> Offset(<<>>, 1, "500"),
      dependency |-> Graphql(<<>>, FALSE, 1)],
     [probes |-> EnabledProbes,
      code |-> Offset(<<CodeRecord("critical", RuleInjection)>>, 0, "200"),
      secret |-> Offset(<<SecretRecord("resolved", Day(6))>>, 0, "200"),
      dependency |-> Graphql(<<<<DependabotNode("HIGH", <<>>)>>>>, FALSE, 0)],
     [probes |-> DisabledProbes,
      code |-> Offset(<<CodeRecord("low", <<>>)>>, 0, "200"),
      secret |-> NoOffsetAlerts,
      dependency |-> NoGraphqlAlerts]}

\* <<"repository", i, name>> is the warning printed by the i-th turn of the loop
GetRepositoriesExplicit ==
    /\ pc = "getRepositories"
    /\ options.repos /= <<>>
    /\ \E resolved \in [DOMAIN options.repos[1] -> BOOLEAN] :
          /\ repos' = ExplicitRepositories(options.repos[1], Catalog, resolved)
          /\ warnings' = warnings \cup
                {<<"repository", i, options.repos[1][i]>> :
                    i \in {j \in DOMAIN options.repos[1] :
                             ~(resolved[j] /\ \E r \in Catalog : r.name = options.repos[1][j])}}
    /\ results' = [results EXCEPT !.summary.totalRepositories = Len(repos')]
    /\ pc' = "audit"
    /\ UNCHANGED <<options, position, platform, failure, shadow, listed>>

SelectFleet(listings) ==
    /\ pc = "getRepositories"
    /\ options.repos = <<>>
    /\ \E listing \in listings :
          /\ repos' = FleetRepositories(listing, options.scope)
          /\ listed' = listing
    /\ results' = [results EXCEPT !.summary.totalRepositories = Len(repos')]
    /\ pc' = "audit"
    /\ UNCHANGED <<options, position, platform, warnings, failure, shadow>>

GetRepositoriesFleet == SelectFleet(Listings(Catalog, MaxRepos))

\* listForOrg throws: run()'s catch ends the process
GetRepositoriesFails ==
    /\ pc = "getRepositories"
    /\ options.repos = <<>>
    /\ pc' = "exit"
    /\ failure' = "getRepositories"
    /\ UNCHANGED <<options, repos, position, platform, results, warnings, shadow, listed>>

\* one turn of the loop of run(): auditRepository on the next repository
AuditRepository(envs) ==
    /\ pc = "audit"
    /\ position < Len(repos)
    /\ \E env \in envs :
          \E out \in {auditRepository(results, repos[position + 1], env)} :
             /\ results' = out.results
             /\ warnings' = warnings \cup out.warnings
             /\ platform' = Append(platform, env)
    /\ position' = position + 1
    /\ UNCHANGED <<pc, options, repos, failure, shadow, listed>>

CalculateCompliance ==
    /\ pc = "audit"
    /\ position = Len(repos)
    /\ \E out \in {calculateCompliance(results)} :
          /\ results' = out.results
          /\ pc' = IF out.threw THEN "exit" ELSE "saveResults"
          /\ failure' = IF out.threw THEN "calculateCompliance" ELSE failure
    /\ UNCHANGED <<options, repos, position, platform, warnings, shadow, listed>>

SaveResults ==
    /\ pc = "saveResults"
    /\ pc' = "printSummary"
    /\ UNCHANGED <<options, repos, position, platform, results, warnings, failure, shadow, listed>>

\* fs.mkdir or fs.writeFile rejects
SaveResultsFails ==
    /\ pc = "saveResults"
    /\ pc' = "exit"
    /\ failure' = "saveResults"
    /\ UNCHANGED <<options, repos, position, platform, results, warnings, shadow, listed>>

PrintSummary ==
    /\ pc = "printSummary"
    /\ pc' = "done"
    /\ UNCHANGED <<options, repos, position, platform, results, warnings, failure, shadow, listed>>

\* no second run to compare with
NoComparison == [answers |-> <<>>, order |-> <<>>, results |-> InitialResults]

Init ==
    /\ pc = "getRepositories"
    /\ options \in RunOptions
    /\ repos = <<>>
    /\ position = 0
    /\ platform = <<>>
    /\ results = InitialResults
    /\ warnings = {}
    /\ failure = "none"
    /\ shadow = NoComparison
    /\ listed = <<>>

Next ==
    \/ GetRepositoriesExplicit
    \/ GetRepositoriesFleet
    \/ GetRepositoriesFails
    \/ AuditRepository(RunEnvs)
    \/ CalculateCompliance
    \/ SaveResults
    \/ SaveResultsFails
    \/ PrintSummary

Spec == Init /\ [][Next]_vars

(***************************************************************************)
(* One repository audited and scored: run() from the point where           *)
(* getRepositories has returned a single repository.                       *)
(***************************************************************************)
InitRepo ==
    /\ pc = "audit"
    /\ options = [repos |-> <<>>, scope |-> "all"]
    /\ repos = <<Repository(<<"w", "e", "b">>, <<<<"production">>>>)>>
    /\ position = 0
    /\ platform = <<>>
    /\ results = [InitialResults EXCEPT !.summary.totalRepositories = 1]
    /\ warnings = {}
    /\ failure = "none"
    /\ shadow = NoComparison
    /\ listed = repos

NextRepo ==
    \/ AuditRepository(RepoEnvs)
    \/ CalculateCompliance

SpecRepo == InitRepo /\ [][NextRepo]_vars

(***************************************************************************)
(* Properties of one audited repository.                                   *)
(***************************************************************************)
Audited == DOMAIN results.repositories
Scored == pc = "saveResults"

\* C1: every repository record appended to results.repositories has
\* totalAlerts = openAlerts + closedAlerts, totalAlerts equal to the sizes of its
\* code, secret and dependency collections added up, and neither openAlerts nor
\* closedAlerts negative.
CountInvariant ==
    \A i \in Audited :
        LET r == results.repositories[i]
        IN /\ r.metrics.totalAlerts = r.metrics.openAlerts + r.metrics.closedAlerts
           /\ r.metrics.totalAlerts =
                 Len(r.alerts.code) + Len(r.alerts.secret) + Len(r.alerts.dependency)
           /\ r.metrics.openAlerts >= 0
           /\ r.metrics.closedAlerts >= 0

\* a record with alerts from all three sources, one of them resolved
CountInvariantWitness ==
    \E i \in Audited :
        LET r == results.repositories[i]
        IN /\ Len(r.alerts.code) > 0
           /\ Len(r.alerts.dependency) > 0
           /\ \E j \in DOMAIN r.alerts.secret : r.alerts.secret[j].state = "resolved"

AllEnabled(f) ==
    /\ f.codeScanning.enabled
    /\ f.secretScanning.enabled
    /\ f.dependabot.enabled
    /\ f.branchProtection.enabled

SingleCleanRun ==
    /\ Scored
    /\ Len(repos) = 1
    /\ platform = <<[probes |-> EnabledProbes, code |-> NoOffsetAlerts,
                    secret |-> NoOffsetAlerts, dependency |-> NoGraphqlAlerts]>>

\* C5: when the fleet is one repository on which every probe succeeds and reports
\* its feature enabled and which has no alert in any source, the scanning, the
\* protection and the resolution sub-scores are each 1 and overallScore is 100.
SingleCleanRepository ==
    SingleCleanRun =>
        /\ AllEnabled(results.repositories[1].securityFeatures)
        /\ ScanningFrom(results.repositories, 1, FZero) = FromNat(1)
        /\ ProtectionFrom(results.repositories, 1, FZero) = FromNat(1)
        /\ ResolutionFrom(results.repositories, 1, FZero) = FromNat(1)
        /\ results.compliance.overallScore = FromNat(100)

\* the same run, with what the code does compute for it
SingleCleanRepositoryWitness ==
    /\ SingleCleanRun
    /\ AllEnabled(results.repositories[1].securityFeatures)
    /\ ScanningFrom(results.repositories, 1, FZero) = FromNat(1)
    /\ ProtectionFrom(results.repositories, 1, FZero) = Double05
    /\ ResolutionFrom(results.repositories, 1, FZero) = FromNat(1)
    /\ results.compliance.overallScore = FDivNat(FromNat(250), 3)

\* the collections each source yields when asked on its own
CodeYield(env) == getCodeScanningAlerts(env.code).alerts
SecretYield(env) == getSecretScanningAlerts(env.secret).alerts
DependencyYield(env) == getDependabotAlerts(env.dependency).alerts

\* the dependency source answers its first page in full and throws on the next request
DependencyFailsAfterPageOne(env) ==
    /\ ~env.dependency.missing
    /\ Len(env.dependency.pages) >= 2
    /\ env.dependency.failRequest = 2
    /\ env.code.failPage = 0
    /\ env.secret.failPage = 0

\* C6: when the dependency source answers page 1 and throws on the next page while
\* the code and secret sources succeed, the repository is appended with its code
\* and secret alerts intact, its dependency collection is empty, a warning is
\* recorded and the run is not aborted.
PartialSourceFailure ==
    \A i \in DOMAIN platform :
        DependencyFailsAfterPageOne(platform[i]) =>
            /\ i \in Audited
            /\ results.repositories[i].alerts.code = CodeYield(platform[i])
            /\ results.repositories[i].alerts.secret = SecretYield(platform[i])
            /\ results.repositories[i].alerts.dependency = <<>>
            /\ <<"dependabot", repos[i].name>> \in warnings
            /\ failure = "none"

\* what the code does in that case: page 1 is kept
PartialSourceFailureWitness ==
    \E i \in DOMAIN platform :
        /\ DependencyFailsAfterPageOne(platform[i])
        /\ i \in Audited
        /\ results.repositories[i].alerts.code = CodeYield(platform[i])
        /\ results.repositories[i].alerts.secret = SecretYield(platform[i])
        /\ results.repositories[i].alerts.dependency =
              Map(DependabotAlert, platform[i].dependency.pages[1])
        /\ Len(results.repositories[i].alerts.dependency) = PerPage
        /\ <<"dependabot", repos[i].name>> \in warnings
        /\ failure = "none"

\* a source-level failure: a request of the source raises an error that is not one
\* of the statuses standing for "nothing available"
CodeSourceFails(env) == env.code.failPage > 0 /\ env.code.failStatus /= "404"
SecretSourceFails(env) ==
    env.secret.failPage > 0 /\ env.secret.failStatus \notin {"403", "404"}
DependencySourceFails(env) == env.dependency.failRequest > 0

\* C7: for each of the three sources and each repository, when the retrieval from
\* that source fails the other two collections are what their sources yield, the
\* collection of the failing source is empty, and an error message is annotated
\* on securityFeatures.<source>.error.
SourceIndependence ==
    \A i \in Audited :
        LET env == platform[i]
            r == results.repositories[i]
        IN /\ CodeSourceFails(env) =>
                /\ r.alerts.code = <<>>
                /\ TruthyString(r.securityFeatures.codeScanning.error)
                /\ SecretSourceFails(env) \/ r.alerts.secret = SecretYield(env)
                /\ DependencySourceFails(env) \/ r.alerts.dependency = DependencyYield(env)
           /\ SecretSourceFails(env) =>
                /\ r.alerts.secret = <<>>
                /\ TruthyString(r.securityFeatures.secretScanning.error)
                /\ CodeSourceFails(env) \/ r.alerts.code = CodeYield(env)
                /\ DependencySourceFails(env) \/ r.alerts.dependency = DependencyYield(env)
           /\ DependencySourceFails(env) =>
                /\ r.alerts.dependency = <<>>
                /\ TruthyString(r.securityFeatures.dependabot.error)
                /\ CodeSourceFails(env) \/ r.alerts.code = CodeYield(env)
                /\ SecretSourceFails(env) \/ r.alerts.secret = SecretYield(env)

\* the part of C7 the code keeps: the code and the secret source
SourceIndependenceOffset ==
    \A i \in Audited :
        LET env == platform[i]
            r == results.repositories[i]
        IN /\ CodeSourceFails(env) =>
                /\ r.alerts.code = <<>>
                /\ TruthyString(r.securityFeatures.codeScanning.error)
                /\ SecretSourceFails(env) \/ r.alerts.secret = SecretYield(env)
                /\ r.alerts.dependency = DependencyYield(env)
           /\ SecretSourceFails(env) =>
                /\ r.alerts.secret = <<>>
                /\ TruthyString(r.securityFeatures.secretScanning.error)
                /\ CodeSourceFails(env) \/ r.alerts.code = CodeYield(env)
                /\ r.alerts.dependency = DependencyYield(env)

NormalizedSeverities == {"critical", "high", "medium", "low", "unknown"}

\* C8: every alert the code-scanning collector or the dependency collector stored
\* in a repository record has its severity in {critical, high, medium, low,
\* unknown}, whatever the source reported.
SeverityNormalized ==
    \A i \in Audited :
        LET r == results.repositories[i]
        IN /\ \A j \in DOMAIN r.alerts.code :
                r.alerts.code[j].severity \in NormalizedSeverities
           /\ \A j \in DOMAIN r.alerts.dependency :
                r.alerts.dependency[j].severity \in NormalizedSeverities

\* C9: a repository whose alerts carry the severities "critical", "HIGH", "Medium",
\* "low" and an unrecognized word adds exactly one to each of criticalAlerts,
\* highAlerts, mediumAlerts and lowAlerts, whichever of the code-scanning source
\* and the dependency source reported each alert.
MixedSeverityCounts ==
    \A i \in Audited :
        (Len(repos) = 1 /\ platform[i] \in MixedSeverityEnvs) =>
            /\ results.summary.totalAlerts = 5
            /\ results.summary.criticalAlerts = 1
            /\ results.summary.highAlerts = 1
            /\ results.summary.mediumAlerts = 1
            /\ results.summary.lowAlerts = 1

\* open as C10 reads it: the state is open, or no resolution timestamp is carried
OpenAsSpecified(a) == Field(a, "state") = "open" \/ ~IsResolved(a)

\* C10: openAlerts is the number of alerts of the three collections whose state is
\* open or that carry no resolution timestamp (resolvedAt or dismissedAt), and
\* closedAlerts is totalAlerts minus openAlerts: an alert that is not open and
\* carries a resolution timestamp is counted closed.
OpenClosedCounts ==
    \A i \in Audited :
        LET r == results.repositories[i]
        IN /\ r.metrics.openAlerts = Count(OpenAsSpecified, AllAlerts(r))
           /\ r.metrics.closedAlerts = r.metrics.totalAlerts - r.metrics.openAlerts

(***************************************************************************)
(* Fleets audited and scored: every combination of the four feature flags  *)
(* on a repository without alerts, and repositories loaded with alerts.    *)
(***************************************************************************)
Fleet(n) == [i \in 1..n |-> Repository(Bulk("r", i), <<>>)]

FeatureProbes ==
    {Probes(cs, ss, repo, bp) :
        cs \in {"analyses", "empty"},
        ss \in {"200", "404"},
        repo \in {"alerts_enabled", "alerts_disabled"},
        bp \in {"protected", "error"}}

LoadedEnvs ==
    {[probes |-> EnabledProbes,
      code |-> Offset(Bulk(CodeRecord("critical", RuleInjection), PerPage)
                      \o <<CodeRecord("high", RuleAuth)>>, 0, "200"),
      secret |-> Offset(Bulk(SecretRecord("resolved", Day(71)), PerPage), 0, "200"),
      dependency |-> Graphql(<<Bulk(DependabotNode("CRITICAL", <<>>), PerPage),
                               <<DependabotNode("HIGH", <<>>)>>>>, FALSE, 0)],
     [probes |-> DisabledProbes,
      code |-> Offset(<<CodeRecord("medium", RuleConfig)>>, 0, "200"),
      secret |-> NoOffsetAlerts,
      dependency |-> Graphql(<<Bulk(DependabotNode("MODERATE", <<>>), 5)>>, FALSE, 0)],
     [probes |-> EnabledProbes,
      code |-> NoOffsetAlerts,
      secret |-> Offset(<<SecretRecord("resolved", Day(9))>>, 0, "200"),
      dependency |-> NoGraphqlAlerts]}

ScoreEnvs ==
    Envs(FeatureProbes, {NoOffsetAlerts}, {NoOffsetAlerts}, {NoGraphqlAlerts}) \cup LoadedEnvs

InitScore ==
    /\ pc = "audit"
    /\ options = [repos |-> <<>>, scope |-> "all"]
    /\ repos \in {Fleet(n) : n \in 1..MaxFleet}
    /\ position = 0
    /\ platform = <<>>
    /\ results = [InitialResults EXCEPT !.summary.totalRepositories = Len(repos)]
    /\ warnings = {}
    /\ failure = "none"
    /\ shadow = NoComparison
    /\ listed = repos

NextScore ==
    \/ AuditRepository(ScoreEnvs)
    \/ CalculateCompliance

SpecScore == InitScore /\ [][NextScore]_vars

InRange(x) == FLe(FZero, x) /\ FLe(x, FromNat(100))

\* C2: after calculateCompliance, overallScore and the scores of OWASP, NIST and
\* ISO27001 are all between 0 and 100, for every fleet, every combination of
\* feature flags and every alert volume.
ScoreBounds ==
    Scored =>
        /\ InRange(results.compliance.overallScore)
        /\ DOMAIN results.compliance.frameworks = {"OWASP", "NIST", "ISO27001"}
        /\ \A f \in DOMAIN results.compliance.frameworks :
              InRange(results.compliance.frameworks[f].score)

\* a scored fleet of several repositories, one with every feature enabled and no
\* alert and one with more than a page of alerts in each source
ScoreBoundsWitness ==
    /\ Scored
    /\ \E i \in Audited : results.repositories[i].metrics.totalAlerts > 3 * PerPage
    /\ \E i \in Audited :
          /\ results.repositories[i].metrics.totalAlerts = 0
          /\ AllEnabled(results.repositories[i].securityFeatures)
    /\ results.summary.dependencyAlerts >= 20

(***************************************************************************)
(* One fleet audited twice, in the order of the list and in another order, *)
(* against the same answers of the platform.                               *)
(***************************************************************************)
OrderEnvs ==
    <<[probes |-> Probes("empty", "404", "alerts_enabled", "error"),
       code |-> NoOffsetAlerts, secret |-> NoOffsetAlerts,
       dependency |-> Graphql(<<<<DependabotNode("HIGH", <<>>)>>>>, FALSE, 0)],
      [probes |-> Probes("analyses", "200", "alerts_enabled", "error"),
       code |-> Offset(<<CodeRecord("critical", RuleInjection)>>, 0, "200"),
       secret |-> NoOffsetAlerts, dependency |-> NoGraphqlAlerts],
      [probes |-> Probes("analyses", "200", "alerts_disabled", "error"),
       code |-> NoOffsetAlerts,
       secret |-> Offset(<<SecretRecord("open", <<>>)>>, 0, "200"),
       dependency |-> NoGraphqlAlerts]>>

SortedFleets(n) ==
    {f \in [1..n -> DOMAIN OrderEnvs] : \A i \in 1..(n - 1) : f[i] <= f[i + 1]}
Orders(n) == {p \in [1..n -> 1..n] : \A i, j \in 1..n : p[i] = p[j] => i = j}

InitOrder ==
    /\ pc = "audit"
    /\ options = [repos |-> <<>>, scope |-> "all"]
    /\ repos = Fleet(MaxOrder)
    /\ position = 0
    /\ platform = <<>>
    /\ results = [InitialResults EXCEPT !.summary.totalRepositories = MaxOrder]
    /\ warnings = {}
    /\ failure = "none"
    /\ \E f \in SortedFleets(MaxOrder), p \in Orders(MaxOrder) :
          shadow = [answers |-> [i \in 1..MaxOrder |-> OrderEnvs[f[i]]],
                    order |-> p,
                    results |-> [InitialResults EXCEPT !.summary.totalRepositories = MaxOrder]]
    /\ listed = repos

\* one turn of the loop of run() in each of the two runs
AuditBoth ==
    /\ pc = "audit"
    /\ position < Len(repos)
    /\ \E out \in {auditRepository(results, repos[position + 1],
                                   shadow.answers[position + 1])},
          other \in {auditRepository(shadow.results, repos[shadow.order[position + 1]],
                                     shadow.answers[shadow.order[position + 1]])} :
          /\ results' = out.results
          /\ warnings' = warnings \cup out.warnings
          /\ shadow' = [shadow EXCEPT !.results = other.results]
    /\ platform' = Append(platform, shadow.answers[position + 1])
    /\ position' = position + 1
    /\ UNCHANGED <<pc, options, repos, failure, listed>>

ScoreBoth ==
    /\ pc = "audit"
    /\ position = Len(repos)
    /\ \E out \in {calculateCompliance(results)},
          other \in {calculateCompliance(shadow.results)} :
          /\ results' = out.results
          /\ shadow' = [shadow EXCEPT !.results = other.results]
          /\ pc' = IF out.threw \/ other.threw THEN "exit" ELSE "saveResults"
          /\ failure' = IF out.threw \/ other.threw THEN "calculateCompliance" ELSE failure
    /\ UNCHANGED <<options, repos, position, platform, warnings, listed>>

NextOrder ==
    \/ AuditBoth
    \/ ScoreBoth

SpecOrder == InitOrder /\ [][NextOrder]_vars

\* C3: auditing the same repositories in any order and then scoring gives the same
\* summary counters and the same compliance result (overallScore and every
\* framework score).
OrderIndependence ==
    Scored =>
        /\ results.summary = shadow.results.summary
        /\ results.compliance = shadow.results.compliance

\* two orders of one fleet that agree on the summary and on the framework scores
\* and differ in overallScore
OrderIndependenceWitness ==
    /\ Scored
    /\ results.summary = shadow.results.summary
    /\ results.compliance.frameworks = shadow.results.compliance.frameworks
    /\ results.compliance.overallScore /= shadow.results.compliance.overallScore

\* the summary counters alone do not depend on the order
SummaryOrderIndependence == Scored => results.summary = shadow.results.summary

(***************************************************************************)
(* Properties of a full run.                                               *)
(***************************************************************************)
SelectedNone == pc /= "getRepositories" /\ failure /= "getRepositories" /\ repos = <<>>

\* C4: when the selector resolves no repository the run goes on to its end without
\* an error of the audit (only the writing of the report can still fail), and
\* overallScore is 0, every counter of the summary is 0 and repositories is empty.
EmptyFleet ==
    SelectedNone =>
        /\ results.compliance.overallScore = FZero
        /\ \A k \in DOMAIN results.summary : results.summary[k] = 0
        /\ results.repositories = <<>>
        /\ failure \in {"none", "saveResults"}
        /\ pc \in {"audit", "saveResults", "printSummary", "done", "exit"}
        /\ pc = "exit" => failure = "saveResults"

\* a run that selected nothing and ended after printing its summary
EmptyFleetWitness ==
    /\ SelectedNone
    /\ pc = "done"
    /\ failure = "none"
    /\ results.summary.scannedRepositories = 0

(***************************************************************************)
(* Mean time to resolve.                                                   *)
(***************************************************************************)
\* every source of the repository answered all its requests
AllSourcesAnswer(env) ==
    /\ env.code.failPage = 0
    /\ env.secret.failPage = 0
    /\ env.dependency.failRequest = 0
    /\ ~env.dependency.missing

RECURSIVE Flatten(_)
Flatten(pages) == IF pages = <<>> THEN <<>> ELSE Head(pages) \o Flatten(Tail(pages))

\* the alerts the platform reported, each with its creation time and the resolution
\* timestamp it was reported with (<<>>: none)
ReportedCode(a) == [createdAt |-> a.created_at, resolvedAt |-> <<>>]
ReportedSecret(a) == [createdAt |-> a.created_at, resolvedAt |-> a.resolved_at]
ReportedDependency(a) == [createdAt |-> a.createdAt, resolvedAt |-> a.dismissedAt]
Reported(env) ==
    Map(ReportedCode, env.code.alerts)
    \o Map(ReportedSecret, env.secret.alerts)
    \o Map(ReportedDependency, Flatten(env.dependency.pages))

FiveDays == 5 * 24

\* C11: meanTimeToResolve is the average, over the alerts of the three sources that
\* have a resolution timestamp, of (resolution - creation) in days: 0 when no
\* alert has one, and 5 when the only alert of the repository was created at T
\* and resolved or dismissed at T + 5 days.
MeanTimeToResolveBoundary ==
    \A i \in Audited :
        LET env == platform[i]
            mttr == results.repositories[i].metrics.meanTimeToResolve
        IN AllSourcesAnswer(env) =>
              /\ mttr = MeanTimeToResolve(Reported(env))
              /\ (\A j \in DOMAIN Reported(env) : Reported(env)[j].resolvedAt = <<>>)
                    => mttr = FZero
              /\ (/\ Len(Reported(env)) = 1
                  /\ Reported(env)[1].resolvedAt /= <<>>
                  /\ Reported(env)[1].resolvedAt[1] = Reported(env)[1].createdAt[1] + FiveDays)
                    => mttr = FromNat(5)

\* the only alert is a dependency alert dismissed five days after its creation, and
\* the mean is 0
MeanTimeToResolveBoundaryWitness ==
    \E i \in Audited :
        LET env == platform[i]
        IN /\ AllSourcesAnswer(env)
           /\ env.code.alerts = <<>>
           /\ env.secret.alerts = <<>>
           /\ Flatten(env.dependency.pages) = <<DependabotNode("MODERATE", Day(6))>>
           /\ results.repositories[i].metrics.totalAlerts = 1
           /\ results.repositories[i].metrics.meanTimeToResolve = FZero

\* the part of C11 the code keeps: the mean over the stored alerts, which is 5 for a
\* single secret alert resolved five days after its creation
MeanTimeToResolveStored ==
    \A i \in Audited :
        LET r == results.repositories[i]
        IN /\ r.metrics.meanTimeToResolve = MeanTimeToResolve(AllAlerts(r))
           /\ (AllAlerts(r) = <<SecretAlert(SecretRecord("resolved", Day(6)))>>)
                 => r.metrics.meanTimeToResolve = FromNat(5)
           /\ (\A j \in DOMAIN r.alerts.secret : r.alerts.secret[j].resolvedAt = <<>>)
                 => r.metrics.meanTimeToResolve = FZero

(***************************************************************************)
(* The scoring formulas, written per repository and as fractions of the    *)
(* fleet, and compared with what the scorer computed.  The scorer adds and *)
(* divides doubles in its own order, so the comparison allows for the      *)
(* rounding of the last bits.                                              *)
(***************************************************************************)
Tolerance == FRatio(1, 1000000)
Near(x, y) == FLe(x, FAdd(y, Tolerance)) /\ FLe(y, FAdd(x, Tolerance))

Flag(b) == IF b THEN 1 ELSE 0
ScanningOf(r) ==
    FRatio(33 * Flag(r.securityFeatures.codeScanning.enabled)
           + 33 * Flag(r.securityFeatures.secretScanning.enabled)
           + 34 * Flag(r.securityFeatures.dependabot.enabled), 100)
ProtectionOf(r) ==
    FRatio(Flag(r.securityFeatures.branchProtection.enabled)
           + Flag(r.securityFeatures.secretScanning.pushProtection), 2)
ResolutionOf(r) ==
    IF r.metrics.totalAlerts > 0
    THEN FRatio(r.metrics.closedAlerts, r.metrics.totalAlerts)
    ELSE FromNat(1)
\* 100 times the average over the repositories
PercentageOf(values) == FMulNat(FDivNat(Sum(values), Len(values)), 100)
SpecifiedOverall(list) ==
    FDivNat(FAdd(FAdd(PercentageOf([i \in DOMAIN list |-> ScanningOf(list[i])]),
                      PercentageOf([i \in DOMAIN list |-> ProtectionOf(list[i])])),
                 PercentageOf([i \in DOMAIN list |-> ResolutionOf(list[i])])), 3)

\* C12: for a fleet of N >= 1 repositories overallScore is the mean of three
\* percentages, each 100 times the average over the repositories of: scanning
\* (0.33 code scanning + 0.33 secret scanning + 0.34 dependency alerting),
\* protection (0.5 branch protection + 0.5 push protection) and resolution
\* (closedAlerts / totalAlerts, or 1 without alerts).
OverallScoreFormula ==
    (Scored /\ Len(results.repositories) >= 1) =>
        Near(results.compliance.overallScore, SpecifiedOverall(results.repositories))

\* a scored fleet of repositories that differ in their features, one with alerts
\* and one without
OverallScoreFormulaWitness ==
    /\ Scored
    /\ Len(results.repositories) >= 2
    /\ \E i, j \in Audited :
          /\ results.repositories[i].metrics.totalAlerts > 0
          /\ results.repositories[j].metrics.totalAlerts = 0
          /\ results.repositories[i].securityFeatures.codeScanning.enabled
          /\ ~results.repositories[j].securityFeatures.codeScanning.enabled
          /\ results.repositories[j].securityFeatures.dependabot.enabled
          /\ results.repositories[j].securityFeatures.branchProtection.enabled

\* what the formulas of the frameworks count in a fleet
AnyRule(list, word) ==
    \E i \in DOMAIN list :
        \E j \in DOMAIN list[i].alerts.code : Includes(list[i].alerts.code[j].rule[1], word)
FleetSecretAlerts(list) ==
    Cardinality(UNION {{<<i, j>> : j \in DOMAIN list[i].alerts.secret} : i \in DOMAIN list})
FleetDependencyAlerts(list) ==
    Cardinality(UNION {{<<i, j>> : j \in DOMAIN list[i].alerts.dependency} : i \in DOMAIN list})
WithCodeScanning(list) == {i \in DOMAIN list : list[i].securityFeatures.codeScanning.enabled}
WithSecretScanning(list) == {i \in DOMAIN list : list[i].securityFeatures.secretScanning.enabled}
WithDependabot(list) == {i \in DOMAIN list : list[i].securityFeatures.dependabot.enabled}
WithBranchProtection(list) ==
    {i \in DOMAIN list : list[i].securityFeatures.branchProtection.enabled}
\* weight * |part| / N
Share(weight, part, list) == FRatio(weight * Cardinality(part), Len(list))
Capped(points, shares) == FMin(FromNat(100), FAdd(FromNat(points), shares))
FrameworkScore(name) == results.compliance.frameworks[name].score
ScoredFleet == Scored /\ Len(results.repositories) >= 1

SpecifiedOWASP(list) ==
    Capped(10 * Flag(~AnyRule(list, <<"i", "n", "j", "e", "c", "t", "i", "o", "n">>))
           + 10 * Flag(~AnyRule(list, <<"a", "u", "t", "h">>))
           + 20 * Flag(FleetSecretAlerts(list) = 0)
           + 10 * Flag(~AnyRule(list, <<"c", "o", "n", "f", "i", "g">>))
           + (IF FleetDependencyAlerts(list) < 5 THEN 20
              ELSE IF FleetDependencyAlerts(list) < 20 THEN 10 ELSE 0),
           Share(30, WithCodeScanning(list), list))

\* C13: the OWASP score of a fleet of N >= 1 repositories is min(100, 10 without a
\* code alert whose rule id contains "injection" + 10 without one containing
\* "auth" + 20 without a secret alert in the fleet + 10 without one containing
\* "config" + (20 with fewer than 5 dependency alerts in the fleet, 10 with fewer
\* than 20, else 0) + 30 * (repositories with code scanning enabled) / N).
OWASPFormula ==
    ScoredFleet => Near(FrameworkScore("OWASP"), SpecifiedOWASP(results.repositories))

\* a scored fleet with an injection alert, between 5 and 19 dependency alerts and
\* code scanning enabled on a part of the repositories
OWASPFormulaWitness ==
    /\ ScoredFleet
    /\ AnyRule(results.repositories, <<"c", "o", "n", "f", "i", "g">>)
    /\ ~AnyRule(results.repositories, <<"a", "u", "t", "h">>)
    /\ FleetDependencyAlerts(results.repositories) \in 5..19
    /\ Cardinality(WithCodeScanning(results.repositories)) = 1
    /\ Len(results.repositories) = 2

\* the sum over the fleet of the mean times to resolve
FleetResolveTime(list) == Sum([i \in DOMAIN list |-> list[i].metrics.meanTimeToResolve])
WithAnyScanner(list) == WithCodeScanning(list) \cup WithSecretScanning(list) \cup WithDependabot(list)

SpecifiedNIST(list) ==
    Capped(20 + 20
           + (IF FLt(FleetResolveTime(list), FromNat(7 * Len(list))) THEN 20
              ELSE IF FLt(FleetResolveTime(list), FromNat(30 * Len(list))) THEN 10 ELSE 0),
           FAdd(Share(20, WithBranchProtection(list), list),
                Share(20, WithAnyScanner(list), list)))

\* C14: the NIST score of a fleet of N >= 1 repositories is min(100, 20 + 20 *
\* (repositories with branch protection) / N + 20 * (repositories with at least
\* one of code scanning, secret scanning, dependency alerting) / N + (20 when the
\* mean over the repositories of meanTimeToResolve is below 7, 10 when below 30,
\* else 0) + 20).
NISTFormula ==
    ScoredFleet => Near(FrameworkScore("NIST"), SpecifiedNIST(results.repositories))

\* a scored fleet whose mean time to resolve is 30 days or more, with branch
\* protection on a part of the repositories
NISTFormulaWitness ==
    /\ ScoredFleet
    /\ Len(results.repositories) = 2
    /\ FLe(FromNat(30 * 2), FleetResolveTime(results.repositories))
    /\ Cardinality(WithBranchProtection(results.repositories)) = 1
    /\ Cardinality(WithAnyScanner(results.repositories)) = 1

\* the middle tier: a mean time to resolve from 7 to below 30 days
NISTMiddleTier ==
    /\ ScoredFleet
    /\ FLe(FromNat(7 * Len(results.repositories)), FleetResolveTime(results.repositories))
    /\ FLt(FleetResolveTime(results.repositories), FromNat(30 * Len(results.repositories)))

SpecifiedISO(list) ==
    Capped(25, FAdd(FAdd(Share(25, WithDependabot(list), list),
                         Share(25, WithCodeScanning(list), list)),
                    Share(25, WithSecretScanning(list), list)))

\* C15: the ISO27001 score of a fleet of N >= 1 repositories is min(100, 25 *
\* (repositories with dependency alerting) / N + 25 * (repositories with code
\* scanning) / N + 25 * (repositories with secret scanning) / N + 25).
ISOFormula ==
    ScoredFleet => Near(FrameworkScore("ISO27001"), SpecifiedISO(results.repositories))

\* a scored fleet in which the three scanners are enabled on different repositories
ISOFormulaWitness ==
    /\ ScoredFleet
    /\ Len(results.repositories) = 2
    /\ Cardinality(WithSecretScanning(results.repositories)) = 2
    /\ Cardinality(WithCodeScanning(results.repositories)) = 1
    /\ Cardinality(WithDependabot(results.repositories)) = 0

(***************************************************************************)
(* Failures of the secret-scanning source and of the feature probes.       *)
(***************************************************************************)
\* C16: in the collection of secret-scanning alerts a 403 or a 404 on any page
\* gives an empty collection and no error annotation on secretScanning; any
\* other error on any page gives an empty collection and secretScanning.error.
SecretScanningStatuses ==
    \A i \in Audited :
        LET env == platform[i]
            r == results.repositories[i]
        IN env.secret.failPage > 0 =>
              /\ r.alerts.secret = <<>>
              /\ IF env.secret.failStatus \in {"403", "404"}
                 THEN r.securityFeatures.secretScanning.error = Undefined
                 ELSE TruthyString(r.securityFeatures.secretScanning.error)

\* a 403 on the second page: the first page is kept
SecretScanningStatusesWitness ==
    \E i \in Audited :
        /\ platform[i].secret.failPage = 2
        /\ platform[i].secret.failStatus = "403"
        /\ results.repositories[i].alerts.secret =
              Map(SecretAlert, SubSeq(platform[i].secret.alerts, 1, PerPage))
        /\ results.repositories[i].securityFeatures.secretScanning.error = Undefined

\* the part of C16 the code keeps: the first page, and every error that is neither
\* a 403 nor a 404
SecretScanningFirstPage ==
    \A i \in Audited :
        LET env == platform[i]
            r == results.repositories[i]
        IN /\ (env.secret.failPage = 1 \/ SecretSourceFails(env)) => r.alerts.secret = <<>>
           /\ SecretSourceFails(env) <=> TruthyString(r.securityFeatures.secretScanning.error)

\* C17: the secret-scanning probe leaves secretScanning.enabled true when its
\* request is answered (whatever the data), false when it fails with status 404,
\* and true when it fails with any other error, an error without a status included.
SecretScanningProbe ==
    \A i \in Audited :
        LET probe == platform[i].probes.secretScanning
            enabled == results.repositories[i].securityFeatures.secretScanning.enabled
        IN /\ probe = "200" => enabled
           /\ probe = "404" => ~enabled
           /\ probe \notin {"200", "404"} => enabled

\* a probe that fails with an error carrying no status, the feature reported enabled
SecretScanningProbeWitness ==
    \E i \in Audited :
        /\ platform[i].probes.secretScanning = Undefined
        /\ results.repositories[i].securityFeatures.secretScanning.enabled

\* a probe that fails with a 404, the feature reported disabled
SecretScanningProbeNotFound ==
    \E i \in Audited :
        /\ platform[i].probes.secretScanning = "404"
        /\ ~results.repositories[i].securityFeatures.secretScanning.enabled

\* C18: when every probe request of a repository fails, getSecurityFeatures does
\* not throw, the repository goes on to alert collection and is recorded, and the
\* four flags codeScanning, secretScanning, dependabot and branchProtection
\* .enabled keep their default false.
Outage(i) == platform[i].probes = OutageProbes
TotalProbeFailure ==
    /\ position = Len(results.repositories)
    /\ \A i \in Audited :
          LET f == results.repositories[i].securityFeatures
          IN Outage(i) =>
                /\ ~f.codeScanning.enabled
                /\ ~f.secretScanning.enabled
                /\ ~f.dependabot.enabled
                /\ ~f.branchProtection.enabled

\* every probe failed, the alerts were still collected, secret scanning is reported
\* enabled
TotalProbeFailureWitness ==
    \E i \in Audited :
        LET r == results.repositories[i]
        IN /\ Outage(i)
           /\ r.securityFeatures.secretScanning.enabled
           /\ r.alerts.code = CodeYield(platform[i])
           /\ Len(r.alerts.code) > 0
           /\ <<"features", r.name>> \in warnings

\* the part of C18 the code keeps: the repository is recorded with what its sources
\* gave, the warning is printed, and the three other flags stay false
TotalProbeFailureOthers ==
    /\ position = Len(results.repositories)
    /\ \A i \in Audited :
          LET r == results.repositories[i]
          IN Outage(i) =>
                /\ ~r.securityFeatures.codeScanning.enabled
                /\ ~r.securityFeatures.dependabot.enabled
                /\ ~r.securityFeatures.branchProtection.enabled
                /\ <<"features", r.name>> \in warnings
                /\ r.alerts.dependency = DependencyYield(platform[i])

\* C19: whenever a single feature-status probe of a repository fails, the flag of
\* that feature stays false in the repository's record and the feature's status
\* carries an error annotation: the failure is never dropped silently.
CodeProbeFails(p) == p.codeScanning = "error"
SecretProbeFails(p) == p.secretScanning \notin {"200", "404"}
RepositoryProbeFails(p) == p.repository = "error"
SingleProbeFailure(p) ==
    Cardinality({k \in 1..3 : <<CodeProbeFails(p), SecretProbeFails(p),
                                RepositoryProbeFails(p)>>[k]}) = 1
Annotated(status) == ~status.enabled /\ TruthyString(status.error)
ProbeFailureAnnotated ==
    \A i \in Audited :
        LET p == platform[i].probes
            f == results.repositories[i].securityFeatures
        IN SingleProbeFailure(p) =>
              /\ CodeProbeFails(p) => Annotated(f.codeScanning)
              /\ SecretProbeFails(p) => Annotated(f.secretScanning)
              /\ RepositoryProbeFails(p) => Annotated(f.dependabot)

\* only the code-scanning probe failed and every source answered: the record has
\* no annotation and nothing was printed
ProbeFailureAnnotatedWitness ==
    \E i \in Audited :
        LET p == platform[i].probes
            r == results.repositories[i]
        IN /\ SingleProbeFailure(p) /\ CodeProbeFails(p)
           /\ AllSourcesAnswer(platform[i])
           /\ ~r.securityFeatures.codeScanning.enabled
           /\ r.securityFeatures.codeScanning.error = Undefined
           /\ warnings = {}

\* the part of C19 the code keeps: a failed code-scanning or repository probe leaves
\* its flag false, and a failed repository probe prints the warning
ProbeFailureFlags ==
    \A i \in Audited :
        LET p == platform[i].probes
            r == results.repositories[i]
        IN /\ CodeProbeFails(p) => ~r.securityFeatures.codeScanning.enabled
           /\ RepositoryProbeFails(p) =>
                 /\ ~r.securityFeatures.dependabot.enabled
                 /\ ~r.securityFeatures.branchProtection.enabled
                 /\ <<"features", r.name>> \in warnings

(***************************************************************************)
(* The selector in explicit mode.                                          *)
(***************************************************************************)
Explicit == options.repos /= <<>> /\ pc /= "getRepositories"
Requested == options.repos[1]
Skipped(i) == <<"repository", i, Requested[i]>> \in warnings
RepositoryName(repo) == repo.name

\* C20: in explicit mode getRepositories returns exactly the requested names that
\* resolve, in the order of the request: a name that does not resolve is skipped
\* with a warning, does not abort the run and does not keep later names from being
\* resolved; when no name resolves the result is the empty list.
ExplicitSelection ==
    Explicit =>
        /\ Map(RepositoryName, repos) =
              Map(LAMBDA i : Requested[i],
                  Filter(LAMBDA i : ~Skipped(i), [i \in DOMAIN Requested |-> i]))
        /\ \A k \in DOMAIN repos : repos[k] \in Catalog
        /\ \A i \in DOMAIN Requested :
              Skipped(i) \/ \E r \in Catalog : r.name = Requested[i]
        /\ failure /= "getRepositories"
        /\ pc = "audit" /\ position = 0 => failure = "none"
        /\ (\A i \in DOMAIN Requested : Skipped(i)) => repos = <<>>
        /\ results.summary.totalRepositories = Len(repos)

\* the first name did not resolve, the second did and was audited
ExplicitSelectionWitness ==
    /\ Explicit
    /\ Len(Requested) = 2
    /\ Skipped(1) /\ ~Skipped(2)
    /\ Len(repos) = 1 /\ repos[1].name = Requested[2]
    /\ Len(results.repositories) = 1

\* no requested name resolved: the run ends with an empty fleet
ExplicitSelectionNone ==
    /\ Explicit
    /\ \A i \in DOMAIN Requested : Skipped(i)
    /\ repos = <<>>
    /\ pc = "done"

\* C21: the list the selector returns holds no repository more than once, in
\* explicit mode even when the request repeats a name and in fleet mode alike, so
\* that no repository is audited or counted twice in one run.
Distinct(list) == \A i, j \in DOMAIN list : list[i].name = list[j].name => i = j
SelectionDistinct ==
    pc /= "getRepositories" =>
        /\ Distinct(repos)
        /\ Distinct(results.repositories)
        /\ results.summary.scannedRepositories <=
              Cardinality({repos[i].name : i \in DOMAIN repos})

\* a request that names one repository twice: it is audited and counted twice
SelectionDistinctWitness ==
    /\ Explicit
    /\ Len(Requested) = 2 /\ Requested[1] = Requested[2]
    /\ Len(repos) = 2 /\ repos[1] = repos[2]
    /\ Len(results.repositories) = 2
    /\ results.repositories[1].name = results.repositories[2].name
    /\ results.summary.scannedRepositories = 2
    /\ results.summary.totalRepositories = 2

\* the part of C21 the code keeps: a listing without repeated entries, and a request
\* without repeated names, are audited once per repository
SelectionDistinctInputs ==
    (pc /= "getRepositories" /\ (Explicit => Distinct([i \in DOMAIN Requested |-> [name |-> Requested[i]]])))
        => Distinct(repos) /\ Distinct(results.repositories)

(***************************************************************************)
(* The selector in fleet mode, over listings that exercise each arm of     *)
(* the scope filter.                                                       *)
(***************************************************************************)
MaxListing == 2     \* longest hand-picked part of a listing
TopicCatalog ==
    Catalog \cup
    {Repository(<<"a", "u", "t", "h", "-", "s", "v", "c">>, <<<<"docs">>>>),
     Repository(<<"v", "a", "u", "l", "t">>, <<<<"internal", "critical">>>>),
     Repository(<<"t", "o", "o", "l", "s">>, <<<<"critical-path">>>>),
     Repository(<<"A", "P", "I">>, <<>>)}
SelectListings ==
    Listings(TopicCatalog, MaxListing)
    \cup {Bulk(Repository(<<"l", "i", "b">>, <<<<>>>>), PerPage) \o l :
             l \in Listings(TopicCatalog, MaxListing)}
SelectOptions == {[repos |-> <<>>, scope |-> sc] : sc \in {"all", "critical", "custom"}}

InitSelect ==
    /\ pc = "getRepositories"
    /\ options \in SelectOptions
    /\ repos = <<>>
    /\ position = 0
    /\ platform = <<>>
    /\ results = InitialResults
    /\ warnings = {}
    /\ failure = "none"
    /\ shadow = NoComparison
    /\ listed = <<>>

NextSelect == SelectFleet(SelectListings)

SpecSelect == InitSelect /\ [][NextSelect]_vars

Selected == pc = "audit" /\ options.repos = <<>>
Topics(repo) == IF repo.topics = <<>> THEN {} ELSE {repo.topics[1][i] : i \in DOMAIN repo.topics[1]}
Contains(name, word) ==
    \E pre \in 0..Len(name) :
        /\ pre + Len(word) <= Len(name)
        /\ \A k \in DOMAIN word : name[pre + k] = word[k]
Qualifies(repo) ==
    \/ Topics(repo) \cap {"critical", "production"} /= {}
    \/ Contains(repo.name, <<"a", "p", "i">>)
    \/ Contains(repo.name, <<"a", "u", "t", "h">>)
\* the entries of list at the positions in keep, in the order of list
Kept(list, keep) ==
    [k \in 1..Cardinality(keep) |->
        list[CHOOSE i \in keep : Cardinality({j \in keep : j <= i}) = k]]

\* C22: in fleet mode with scope 'critical' getRepositories returns exactly the
\* listed repositories that carry the topic 'critical' or 'production' or whose
\* name contains 'api' or 'auth' (the name alone is enough for a repository
\* without topics); with any other scope it returns the whole listing unchanged.
CriticalScope ==
    Selected =>
        IF options.scope = "critical"
        THEN repos = Kept(listed, {i \in DOMAIN listed : Qualifies(listed[i])})
        ELSE repos = listed

\* scope 'critical' over a listing of two pages: a repository without topics kept
\* for its name, one kept for its topic, and the others dropped
CriticalScopeWitness ==
    /\ Selected
    /\ options.scope = "critical"
    /\ Len(listed) > PerPage
    /\ Len(repos) = 1
    /\ repos[1].topics = <<>>
    /\ Contains(repos[1].name, <<"a", "p", "i">>)

\* scope 'critical' keeps a repository for its topic and drops one whose topic only
\* resembles it
CriticalScopeTopic ==
    /\ Selected
    /\ options.scope = "critical"
    /\ Len(listed) = 2 /\ Len(repos) = 1
    /\ "critical" \in Topics(repos[1])
    /\ "critical-path" \in Topics(listed[1])

\* another scope: the two pages of the listing come back whole
CriticalScopeOther ==
    /\ Selected
    /\ options.scope = "custom"
    /\ Len(repos) = PerPage + MaxListing
    /\ repos = listed

(***************************************************************************)
(* The order of the steps of run().                                        *)
(***************************************************************************)
\* C23: a run is aborted only by a failure that comes before the first repository
\* starts processing; once a repository has begun, no error of the probes, of the
\* collection, of the metrics or of the scoring halts the run, which reaches the
\* step that writes the output document.
Aborted == pc = "exit" /\ failure /= "saveResults"
AbortOnlyBeforeAudit ==
    Aborted =>
        /\ failure = "getRepositories"
        /\ position = 0
        /\ results.repositories = <<>>

\* a run ended by the scorer after its repositories were audited
AbortOnlyBeforeAuditWitness ==
    /\ pc = "exit"
    /\ failure = "calculateCompliance"
    /\ position = Len(repos)
    /\ Len(results.repositories) >= 1
    /\ OWASPThrows(results)
    /\ results.compliance.frameworks = NoFrameworks

\* the part of C23 the code keeps: nothing ends the run inside the loop over the
\* repositories, and the scorer ends it only on a code alert without a rule id
AbortOnlyOnRule ==
    /\ pc = "audit" => failure = "none"
    /\ Aborted /\ failure /= "getRepositories" =>
          /\ failure = "calculateCompliance"
          /\ OWASPThrows(results)
          /\ position = Len(repos)

\* C24: compliance is scored exactly once in a run and only after every selected
\* repository has been processed: before that point compliance is
\* {overallScore: 0, frameworks: {}}; after it overallScore and the three framework
\* scores are set together and never change again.
BeforeScoring == pc \in {"getRepositories", "audit"}
AfterScoring ==
    /\ ~BeforeScoring
    /\ failure /= "getRepositories"
    /\ Len(results.repositories) >= 1
ScoredOnce ==
    /\ BeforeScoring => results.compliance = InitialResults.compliance
    /\ results.compliance /= InitialResults.compliance => position = Len(repos)
    /\ AfterScoring =>
          /\ results.compliance.overallScore = OverallScore(results.repositories)
          /\ DOMAIN results.compliance.frameworks = {"OWASP", "NIST", "ISO27001"}

\* the scorer stopped between its two assignments: an overall score and no framework
ScoredOnceWitness ==
    /\ AfterScoring
    /\ results.compliance.overallScore /= FZero
    /\ results.compliance.overallScore = OverallScore(results.repositories)
    /\ results.compliance.frameworks = NoFrameworks
    /\ pc = "exit"

\* the part of C24 the code keeps: compliance changes in one step only, taken when
\* every selected repository has been processed, and a run that gets to write its
\* report has the four scores
ScoredOnceStep ==
    [][/\ results'.compliance /= results.compliance =>
             pc = "audit" /\ position = Len(repos) /\ pc' /= "audit"
       /\ ~BeforeScoring => results' = results /\ ~BeforeScoring']_vars
ScoredOnceReport ==
    pc \in {"saveResults", "printSummary", "done"} /\ Len(results.repositories) >= 1 =>
        DOMAIN results.compliance.frameworks = {"OWASP", "NIST", "ISO27001"}

(***************************************************************************)
(* Pagination.                                                             *)
(***************************************************************************)
\* C25: the code-scanning collector asks for the pages 1, 2, 3, ... in order,
\* 100 records a page, stops after the first page of fewer than 100 records (an
\* empty page when the total is a multiple of 100), ends on every finite source
\* and returns the pages it fetched, concatenated in order, no record lost or
\* repeated.
CodePagination ==
    \A i \in Audited :
        LET src == platform[i].code
            stored == results.repositories[i].alerts.code
            out == getCodeScanningAlerts(src)
        IN src.failPage = 0 =>
              /\ out.requests = [k \in 1..((Len(src.alerts) \div PerPage) + 1) |-> k]
              /\ ~out.threw
              /\ Len(stored) = Len(src.alerts)
              /\ \A k \in DOMAIN stored : stored[k] = CodeAlert(src.alerts[k])

\* a source of one full page and two records more: two requests, 102 alerts stored
CodePaginationWitness ==
    \E i \in Audited :
        /\ platform[i].code.failPage = 0
        /\ Len(platform[i].code.alerts) = PerPage + 2
        /\ platform[i].code.alerts[PerPage + 1] /= platform[i].code.alerts[PerPage + 2]
        /\ Len(results.repositories[i].alerts.code) = PerPage + 2
        /\ getCodeScanningAlerts(platform[i].code).requests = <<1, 2>>

\* a source of exactly one full page: the second request is answered by an empty page
CodePaginationMultiple ==
    \E i \in Audited :
        /\ platform[i].code.failPage = 0
        /\ Len(platform[i].code.alerts) = PerPage
        /\ Len(results.repositories[i].alerts.code) = PerPage
        /\ getCodeScanningAlerts(platform[i].code).requests = <<1, 2>>

\* C26: the dependency collector sends its first query with a null cursor and each
\* later query with the endCursor of the response just before it; it goes on while
\* that response has hasNextPage true, stops at the first response with
\* hasNextPage false or without alert nodes, and returns the nodes of all the
\* responses, concatenated in order.
NullCursor == 0
CursorPagination ==
    \A i \in Audited :
        LET src == platform[i].dependency
            stored == results.repositories[i].alerts.dependency
            cursors == getDependabotAlerts(src).cursors
            answer(k) == GraphqlAnswer(src, cursors[k])
        IN src.failRequest = 0 =>
              /\ cursors[1] = NullCursor
              /\ \A k \in 2..Len(cursors) :
                    /\ cursors[k] = answer(k - 1).endCursor
                    /\ answer(k - 1).hasNextPage /\ answer(k - 1).hasNodes
              /\ ~answer(Len(cursors)).hasNextPage \/ ~answer(Len(cursors)).hasNodes
              /\ stored = Flatten([k \in DOMAIN cursors |-> Map(DependabotAlert, answer(k).nodes)])

\* two pages: the second query carries the cursor of the first response and the
\* 101 or more nodes are stored
CursorPaginationWitness ==
    \E i \in Audited :
        /\ platform[i].dependency.failRequest = 0
        /\ Len(platform[i].dependency.pages) = 2
        /\ getDependabotAlerts(platform[i].dependency).cursors =
              <<NullCursor, GraphqlAnswer(platform[i].dependency, NullCursor).endCursor>>
        /\ Len(results.repositories[i].alerts.dependency) > PerPage

\* a response without alert nodes: one query, nothing stored, no warning
CursorPaginationNoNodes ==
    \E i \in Audited :
        /\ platform[i].dependency.missing
        /\ getDependabotAlerts(platform[i].dependency).cursors = <<NullCursor>>
        /\ results.repositories[i].alerts.dependency = <<>>
        /\ <<"dependabot", results.repositories[i].name>> \notin warnings

(***************************************************************************)
(* Independence of the probes and the counters of the records.             *)
(***************************************************************************)
\* C27: the four feature probes of a repository are independent: each flag depends
\* on the outcome of its own probe request only, so a failed probe (the repository
\* request behind dependency alerting, say) never changes or suppresses the result
\* of another (branch protection is reported enabled whenever its own fetch
\* succeeds).
ProbesIndependent ==
    \A i \in Audited :
        LET p == platform[i].probes
            f == results.repositories[i].securityFeatures
        IN /\ f.codeScanning.enabled = (p.codeScanning = "analyses")
           /\ f.secretScanning.enabled = (p.secretScanning /= "404")
           /\ f.dependabot.enabled = (p.repository = "alerts_enabled")
           /\ f.branchProtection.enabled = (p.branchProtection = "protected")

\* the repository request failed, the branch is protected, and branch protection is
\* reported disabled
ProbesIndependentWitness ==
    \E i \in Audited :
        LET p == platform[i].probes
            f == results.repositories[i].securityFeatures
        IN /\ p.repository = "error"
           /\ p.branchProtection = "protected"
           /\ p.codeScanning = "analyses" /\ f.codeScanning.enabled
           /\ ~f.branchProtection.enabled

\* the part of C27 the code keeps: the three other flags follow their own probes, and
\* so does branch protection when the repository request is answered
ProbesIndependentOthers ==
    \A i \in Audited :
        LET p == platform[i].probes
            f == results.repositories[i].securityFeatures
        IN /\ f.codeScanning.enabled = (p.codeScanning = "analyses")
           /\ f.secretScanning.enabled = (p.secretScanning /= "404")
           /\ f.dependabot.enabled = (p.repository = "alerts_enabled")
           /\ p.repository /= "error" =>
                 f.branchProtection.enabled = (p.branchProtection = "protected")

\* C28: every record auditRepository builds from the three collectors has
\* openAlerts = totalAlerts and closedAlerts = 0, whatever state and resolvedAt the
\* collected alerts carry (no stored alert has a dismissedAt); so a repository with
\* at least one alert adds 0 to the resolution sum of the scorer.
AllAlertsOpen ==
    \A i \in Audited :
        LET r == results.repositories[i]
        IN /\ r.metrics.openAlerts = r.metrics.totalAlerts
           /\ r.metrics.closedAlerts = 0
           /\ \A k \in DOMAIN AllAlerts(r) : "dismissedAt" \notin DOMAIN AllAlerts(r)[k]
           /\ r.metrics.totalAlerts >= 1 => ResolutionFrom(<<r>>, 1, FZero) = FZero

\* a repository whose only alert is a resolved secret: counted open, resolution 0
AllAlertsOpenWitness ==
    \E i \in Audited :
        LET r == results.repositories[i]
        IN /\ Len(r.alerts.secret) >= 1
           /\ \E k \in DOMAIN r.alerts.secret :
                 /\ r.alerts.secret[k].state = "resolved"
                 /\ TruthyTime(r.alerts.secret[k].resolvedAt)
           /\ r.metrics.openAlerts = r.metrics.totalAlerts
           /\ r.metrics.closedAlerts = 0
           /\ ResolutionFrom(<<r>>, 1, FZero) = FZero

\* C29: in every state between two repository audits, summary.totalAlerts =
\* codeAlerts + secretAlerts + dependencyAlerts = the sum of metrics.totalAlerts over
\* results.repositories, scannedRepositories = |results.repositories| <=
\* totalRepositories, and criticalAlerts + highAlerts + mediumAlerts + lowAlerts <=
\* codeAlerts + dependencyAlerts (a secret alert adds to no severity counter).
RECURSIVE TotalOf(_)
TotalOf(list) ==
    IF list = <<>> THEN 0 ELSE Head(list).metrics.totalAlerts + TotalOf(Tail(list))
SummaryConsistent ==
    LET sum == results.summary
    IN pc /= "getRepositories" =>
          /\ sum.totalAlerts = sum.codeAlerts + sum.secretAlerts + sum.dependencyAlerts
          /\ sum.totalAlerts = TotalOf(results.repositories)
          /\ sum.scannedRepositories = Len(results.repositories)
          /\ sum.scannedRepositories <= sum.totalRepositories
          /\ sum.criticalAlerts + sum.highAlerts + sum.mediumAlerts + sum.lowAlerts
                <= sum.codeAlerts + sum.dependencyAlerts

\* two repositories audited, secret alerts among theirs, every counted severity
\* coming from a code or a dependency alert
SummaryConsistentWitness ==
    /\ Len(results.repositories) = 2
    /\ results.summary.scannedRepositories = 2
    /\ results.summary.secretAlerts >= 1
    /\ results.summary.totalAlerts >= 4
    /\ results.summary.criticalAlerts + results.summary.highAlerts >= 2
    /\ results.summary.criticalAlerts + results.summary.highAlerts
       + results.summary.mediumAlerts + results.summary.lowAlerts
          = results.summary.codeAlerts + results.summary.dependencyAlerts

\* C30: in the collection of code-scanning alerts a 404 on page k ends the
\* pagination without an error: the alerts of the pages 1..k-1 are returned (none
\* when k = 1) and codeScanning carries no error annotation; any other error on
\* page k discards the pages already fetched, leaves alerts.code empty and sets
\* codeScanning.error.
CodeScanningStatuses ==
    \A i \in Audited :
        LET src == platform[i].code
            r == results.repositories[i]
            before == (src.failPage - 1) * PerPage
        IN src.failPage > 0 =>
              IF src.failStatus = "404"
              THEN /\ Len(r.alerts.code) = before
                   /\ \A k \in 1..before : r.alerts.code[k] = CodeAlert(src.alerts[k])
                   /\ r.securityFeatures.codeScanning.error = Undefined
              ELSE /\ r.alerts.code = <<>>
                   /\ TruthyString(r.securityFeatures.codeScanning.error)

\* a 404 on the second page: the first page is kept and nothing is annotated
CodeScanningStatusesWitness ==
    \E i \in Audited :
        /\ platform[i].code.failPage = 2
        /\ platform[i].code.failStatus = "404"
        /\ Len(results.repositories[i].alerts.code) = PerPage
        /\ results.repositories[i].securityFeatures.codeScanning.error = Undefined

\* another error on the second page: the first page is discarded and the error is
\* annotated
CodeScanningStatusesDiscard ==
    \E i \in Audited :
        /\ platform[i].code.failPage = 2
        /\ platform[i].code.failStatus = "500"
        /\ results.repositories[i].alerts.code = <<>>
        /\ TruthyString(results.repositories[i].securityFeatures.codeScanning.error)

====
